---- MODULE Spec2Model ----
(***************************************************************************)
(* A model of the GraphQL-over-WebSocket adapter for API Gateway + Lambda  *)
(* with a Redis-backed registry (packages/graphql-lambda).                 *)
(*                                                                         *)
(* Strings are modelled as sequences of tokens.  A token is a piece of a   *)
(* string that holds no separator; the separators ":", "#", "." and "__"   *)
(* are tokens of their own, so that key building and key parsing are       *)
(* modelled by what they do on the characters that matter.                 *)
(*                                                                         *)
(* Eight specifications are given:                                         *)
(*   Spec     the registry, the context records and the payload records   *)
(*            under a sequence of gateway events and publish calls, each   *)
(*            handled to its end before the next one starts;               *)
(*   SpecCtx  one invocation's change-tracking context manager, with the   *)
(*            microtask that drains the queue and the Redis commands it    *)
(*            issues without awaiting them;                                *)
(*   SpecRace the invocations of a Complete message and of the DISCONNECT *)
(*            event of one connection, overlapping: each takes one step   *)
(*            per call to Redis or to a hook;                              *)
(*   SpecPub  one publish call, taking one step per call to Redis or to    *)
(*            the gateway, while MESSAGE and DISCONNECT events of the      *)
(*            connections are handled beside it;                           *)
(*   SpecSub  the invocations of a Subscribe message and of the            *)
(*            DISCONNECT event of one connection, overlapping;             *)
(*   SpecInit two invocations of ConnectionInit messages of one            *)
(*            connection, overlapping;                                     *)
(*   SpecSock the calls of socket.context() and emitter.complete() made    *)
(*            within one invocation, overlapping;                          *)
(*   SpecShape one pubsub instance, with its map of subscribe payloads,    *)
(*            serving publish calls between the events of the              *)
(*            connections.                                                 *)
(***************************************************************************)
EXTENDS Integers, Sequences, FiniteSets, TLC

\* ------------------------------------------------------------------------
\* Bounds of the model
\* ------------------------------------------------------------------------

\* number of gateway events and publish calls in one behaviour
MaxEvents == 7

\* number of context mutations made within one invocation (SpecCtx)
MaxMutations == 2

\* number of events handled before two invocations overlap (SpecRace)
MaxSetup == 5

\* number of events handled before publish is called (SpecPub)
MaxPubSetup == 4

\* number of events handled while one publish call runs (SpecPub)
MaxConcurrent == 1

\* number of events handled before two invocations of one connection
\* overlap (SpecSub, SpecInit)
MaxSubSetup == 3

\* number of calls of socket.context() and emitter.complete() within one
\* invocation (SpecSock)
MaxCalls == 3

\* number of events handled and of publish calls made on one pubsub
\* instance (SpecShape)
MaxShapeEvents == 5

MaxPublishes == 2

\* ------------------------------------------------------------------------
\* Inputs
\* ------------------------------------------------------------------------

\* connection ids are chosen by the gateway and never reused: plain tokens
ConnIds == { <<"a">>, <<"b">> }

\* subscription ids are chosen by the client: any non-empty string
SubIds == { <<"s">>, <<"x", ":", "s">> }

Topics == { <<"t">>, <<"u">> }

\* What the operation of a Subscribe payload does when it is executed:
\*   subT, subTU  a subscription whose resolver returns pubsub.subscribe("t"),
\*                pubsub.subscribe("t", "u")
\*   subNone      a subscription whose resolver returns pubsub.subscribe()
\*   query        an operation that yields one result
\*   bad          an operation whose resolver throws
Queries == { "subT", "subTU", "subNone", "query", "bad" }

\* the operations that return a channel with topics
ChannelQueries == { "subT", "subTU" }

\* isRegistrableChannel(operationResult)
RegistrableQueries == ChannelQueries \cup { "subNone" }

TopicsOf(q) ==
  CASE q = "subT" -> { <<"t">> }
    [] q = "subTU" -> { <<"t">>, <<"u">> }
    [] OTHER -> {}

None == "none"

\* ------------------------------------------------------------------------
\* Strings
\* ------------------------------------------------------------------------

RECURSIVE Split(_, _)
\* String.prototype.split(sep): the segments between the separators
Split(s, sep) ==
  LET idx == { i \in 1..Len(s) : s[i] = sep } IN
  IF idx = {} THEN << s >>
  ELSE LET i == CHOOSE j \in idx : \A k \in idx : j <= k IN
       << SubSeq(s, 1, i - 1) >> \o Split(SubSeq(s, i + 1, Len(s)), sep)

RECURSIVE SetToSeq(_)
\* the array a Redis SMEMBERS reply is turned into (some fixed order)
SetToSeq(S) ==
  IF S = {} THEN << >>
  ELSE LET x == CHOOSE y \in S : TRUE IN << x >> \o SetToSeq(S \ {x})

Range(f) == { f[i] : i \in DOMAIN f }

\* ------------------------------------------------------------------------
\* Key layout
\* ------------------------------------------------------------------------

KeyPrefix == "pubsub"

key(type, id) == << KeyPrefix, ":", type, ":" >> \o id

\* key.split(':').pop()
extractId(k) == LET parts == Split(k, ":") IN parts[Len(parts)]

ConnKey(c) == key("conn", c)
SubKey(s) == key("sub", s)
TopicKey(t) == key("topic", t)

\* connKey .. "#" .. subKey
TopicSubData(connKey, subKey) == connKey \o << "#" >> \o subKey

\* ------------------------------------------------------------------------
\* Redis: the keyspace of sets is a set of <<key, member>> pairs, so that a
\* key exists exactly when its set has a member.
\* ------------------------------------------------------------------------

SMEMBERS(S, k) == { p[2] : p \in { q \in S : q[1] = k } }
\* SADD that takes out a member the set already holds
SADDToggling(S, k, members) ==
  LET new == { << k, m >> : m \in members } IN (S \ new) \cup (new \ S)

SADD(S, k, members) == S \cup { << k, m >> : m \in members }
SREM(S, k, m) == S \ { << k, m >> }
DEL(S, k) == { p \in S : p[1] # k }
EXISTS(S, k) == \E p \in S : p[1] = k

\* a Redis hash is a function from field to value; the empty hash is no key
EmptyHash == [ f \in {} |-> << >> ]
HSET(h, kv) ==
  [ f \in DOMAIN h \cup DOMAIN kv |-> IF f \in DOMAIN kv THEN kv[f] ELSE h[f] ]
HDEL(h, fields) == [ f \in DOMAIN h \ fields |-> h[f] ]

\* ------------------------------------------------------------------------
\* Registry: the three Lua scripts, run atomically by the server
\* ------------------------------------------------------------------------

\* AddToTopics with a loop that stops after the first topic key
AddToTopicsFirstOnly(S, topicKeys, topicSubData) ==
  IF topicKeys = << >> THEN S
  ELSE SADD(S, Head(topicKeys), {topicSubData})

RECURSIVE AddToTopics(_, _, _)
\* for i = 3, #KEYS do SADD KEYS[i] topicSubData
AddToTopics(S, topicKeys, topicSubData) ==
  IF topicKeys = << >> THEN S
  ELSE AddToTopics(SADD(S, Head(topicKeys), {topicSubData}),
                   Tail(topicKeys), topicSubData)

\* REGISTER_SUBSCRIPTION_REDIS_LUA_SCRIPT.  The trailing SADD has no member
\* when no topic key is passed: the server rejects it and the script stops
\* there, the writes made before it stay.
RegisterScript(S, subKey, connKey, topicKeys) ==
  LET S1 == SADD(S, connKey, {subKey})
      S2 == AddToTopics(S1, topicKeys, TopicSubData(connKey, subKey))
  IN IF topicKeys = << >>
     THEN [ sets |-> S2, ok |-> FALSE ]
     ELSE [ sets |-> SADD(S2, subKey, Range(topicKeys)), ok |-> TRUE ]

RECURSIVE RemFromTopics(_, _, _)
\* for i, topicKey in ipairs(topicKeys) do SREM topicKey topicSubData
RemFromTopics(S, topicKeys, topicSubData) ==
  IF topicKeys = << >> THEN S
  ELSE RemFromTopics(SREM(S, Head(topicKeys), topicSubData),
                     Tail(topicKeys), topicSubData)

\* UNREGISTER_SUBSCRIPTION_REDIS_LUA_SCRIPT
UnregisterScript(S, subKey, connKey) ==
  LET topicKeys == SetToSeq(SMEMBERS(S, subKey))
      S1 == RemFromTopics(S, topicKeys, TopicSubData(connKey, subKey))
      S2 == SREM(S1, connKey, subKey)
  IN DEL(S2, subKey)

RECURSIVE DisconnectLoop(_, _, _)
\* for i, subKey in ipairs(subKeys) do ... DEL subKey
DisconnectLoop(S, connKey, subKeys) ==
  IF subKeys = << >> THEN S
  ELSE LET subKey == Head(subKeys)
           topicKeys == SetToSeq(SMEMBERS(S, subKey))
           S1 == RemFromTopics(S, topicKeys, TopicSubData(connKey, subKey))
       IN DisconnectLoop(DEL(S1, subKey), connKey, Tail(subKeys))

\* DISCONNECT_CONNECTION_REDIS_LUA_SCRIPT
DisconnectScript(S, connKey) ==
  DEL(DisconnectLoop(S, connKey, SetToSeq(SMEMBERS(S, connKey))), connKey)

\* channel.register(connectionId, subscriptionId) of pubsub.subscribe(...topics)
register(S, topics, connectionId, subscriptionId) ==
  RegisterScript(S, SubKey(subscriptionId), ConnKey(connectionId),
                 SetToSeq({ TopicKey(t) : t \in topics }))

unregister(S, connectionId, subscriptionId) ==
  UnregisterScript(S, SubKey(subscriptionId), ConnKey(connectionId))

disconnect(S, connectionId) == DisconnectScript(S, ConnKey(connectionId))

\* isRegistered looking under the connection namespace
isRegisteredConnKey(S, subscriptionId) == EXISTS(S, ConnKey(subscriptionId))

isRegistered(S, subscriptionId) == EXISTS(S, SubKey(subscriptionId))

RECURSIVE ParseChannels(_)
\* the loop of getChannels: subscription.split('#').map(extractId), the first
\* two results are the ids, a member with an empty or missing id is skipped
ParseChannels(members) ==
  IF members = << >> THEN << >>
  ELSE LET parts == Split(Head(members), "#")
           connectionId == extractId(parts[1])
           subscriptionId == IF Len(parts) >= 2 THEN extractId(parts[2]) ELSE << >>
       IN (IF connectionId = << >> \/ subscriptionId = << >> THEN << >>
           ELSE << [ connectionId |-> connectionId,
                     subscriptionId |-> subscriptionId ] >>)
          \o ParseChannels(Tail(members))

getChannels(S, topic) == ParseChannels(SetToSeq(SMEMBERS(S, TopicKey(topic))))

RECURSIVE ExtractIds(_)
\* keys.map(extractId).filter(Boolean)
ExtractIds(keys) ==
  IF keys = << >> THEN << >>
  ELSE (IF extractId(Head(keys)) = << >> THEN << >> ELSE << extractId(Head(keys)) >>)
       \o ExtractIds(Tail(keys))

getRegisteredTopics(S, subscriptionId) ==
  ExtractIds(SetToSeq(SMEMBERS(S, SubKey(subscriptionId))))

getConnectionSubscriptions(S, connectionId) ==
  ExtractIds(SetToSeq(SMEMBERS(S, ConnKey(connectionId))))

\* ------------------------------------------------------------------------
\* Context codec.  A value is a record [t, v]: its JavaScript type and its
\* text; a stored value is the text serializeValue gives.
\* ------------------------------------------------------------------------

JTrue == [ t |-> "boolean", v |-> << "true" >> ]
JFalse == [ t |-> "boolean", v |-> << "false" >> ]
JUndefined == [ t |-> "undefined", v |-> << >> ]
JNull == [ t |-> "null", v |-> << >> ]
JString(s) == [ t |-> "string", v |-> s ]

serializeValue(value) ==
  CASE value.t = "null" -> << "__", "null", "__" >>
    [] value.t = "undefined" -> << "__", "undefined", "__" >>
    [] value.t = "boolean" -> << "__", "boolean", "__" >> \o value.v
    [] value.t = "number" -> << "__", "number", "__" >> \o value.v
    [] OTHER -> value.v

\* Number(content) is NaN: the model's numbers are texts of digit tokens
Digits == { "0", "1", "2", "42" }
IsNumberText(content) == Len(content) = 1 /\ content[1] \in Digits

deserializeValue(raw) ==
  LET ends == { i \in 2..Len(raw) : raw[i] = "__" } IN
  IF Len(raw) >= 1 /\ raw[1] = "__" /\ ends # {}
  THEN LET prefixEnd == CHOOSE i \in ends : \A j \in ends : i <= j
           type == SubSeq(raw, 2, prefixEnd - 1)
           content == SubSeq(raw, prefixEnd + 1, Len(raw))
       IN CASE type = << "boolean" >> ->
                 IF content = << "true" >> THEN JTrue ELSE JFalse
            [] type = << "number" >> ->
                 IF IsNumberText(content) THEN [ t |-> "number", v |-> content ]
                 ELSE JString(content)
            [] type = << "null" >> -> JNull
            [] type = << "undefined" >> -> JUndefined
            [] OTHER -> JString(content)
  ELSE JString(raw)

\* the truth value a condition gives a value
Truthy(value) ==
  CASE value.t = "boolean" -> value.v = << "true" >>
    [] value.t = "string" -> value.v # << >>
    [] value.t = "number" -> value.v # << "0" >>
    [] OTHER -> FALSE

FInit == << "connectionInitReceived" >>
FAck == << "acknowledged" >>
FParams == << "connectionParams", ".", "token" >>
FExtraConn == << "extra", ".", "connectionId" >>

\* BuiltFlag without the decoding: the stored text is taken as the flag
BuiltFlagUndecoded(raw, field) ==
  IF field \in DOMAIN raw THEN JString(raw[field]) ELSE JFalse

\* buildContext(raw), the two flags: a stored flag is decoded, a missing one
\* keeps the default false
BuiltFlag(raw, field) ==
  IF field \in DOMAIN raw THEN deserializeValue(raw[field]) ELSE JFalse

\* ------------------------------------------------------------------------
\* State
\* ------------------------------------------------------------------------

VARIABLES
  sets,               \* Redis sets pubsub:conn:*, pubsub:sub:*, pubsub:topic:*
  payloads,           \* Redis strings graphql:subscription:{sid}
  ctxStore,           \* Redis hashes graphql:connection:{cid}
  gw,                 \* the gateway's view of each connection id
  live,               \* history: <<cid, sid, topic>> subscribed and not ended
  ev,                 \* the last event handled and what it did
  nev,                \* number of events handled so far
  pc,                 \* SpecCtx: where the invocation stands
  mem,                \* SpecCtx: the in-memory context behind the proxy
  pendingChanges,     \* SpecCtx: the queue of the context manager
  isUpdateScheduled,  \* SpecCtx: the flag of the context manager
  microtask,          \* SpecCtx: a flushChanges microtask is queued
  updatePromises,     \* SpecCtx: number of unsettled batchUpdate promises
  inflight,           \* SpecCtx: Redis commands issued and not yet applied
  expected,           \* SpecCtx: history, the hash with every mutation applied
  nmut,               \* SpecCtx: number of mutations made so far
  lastMut,            \* SpecCtx: history, the last mutation and what it queued
  lost,               \* SpecCtx: history, whether a command failed
  inv                 \* SpecRace, SpecPub: the invocations in progress, by name

regVars == << sets, payloads, ctxStore, gw, live, ev, nev >>
\* what the handling of one event at a time leaves alone
idleVars == << pc, mem, pendingChanges, isUpdateScheduled, microtask, updatePromises,
               inflight, expected, nmut, lastMut, lost >>
vars == << sets, payloads, ctxStore, gw, live, ev, nev, pc, mem, pendingChanges,
           isUpdateScheduled, microtask, updatePromises, inflight, expected, nmut, lastMut,
           lost, inv >>

\* close codes of graphql-ws
BadRequest == 4400
Unauthorized == 4401
Forbidden == 4403
SubscriberAlreadyExists == 4409
TooManyInitialisationRequests == 4429

\* what an invocation did.  result is what handleConnect, handleDisconnect,
\* handleMessage or the custom route handler returned to the handler, arg is
\* the part of the message the handler used, flushed tells whether the
\* handler awaited socket.flushChanges() before it returned
Event(type, conn, sid, status, close, sends, hooks, owned) ==
  [ type |-> type, conn |-> conn, sid |-> sid, status |-> status,
    close |-> close, sends |-> sends, hooks |-> hooks, owned |-> owned,
    result |-> None, arg |-> None, flushed |-> (status # "threw") ]

\* if (result) return result: the handler returns what the route handler
\* gave it and does not reach the flush; without a result it awaits
\* socket.flushChanges() and returns 200
Returned(e, result) ==
  IF result = None THEN e
  ELSE [ e EXCEPT !.result = result, !.flushed = FALSE ]

\* the event with the part of the message the handler used
WithArg(e, arg) == [ e EXCEPT !.arg = arg ]

Frame(to, type, id) == [ to |-> to, type |-> type, id |-> id, outcome |-> "ok" ]

Hook(name, sid, payload) == [ hook |-> name, sid |-> sid, payload |-> payload ]

InitReg ==
  /\ sets = {}
  /\ payloads = [ s \in SubIds |-> None ]
  /\ ctxStore = [ c \in ConnIds |-> EmptyHash ]
  /\ gw = [ c \in ConnIds |-> "none" ]
  /\ live = {}
  /\ ev = Event("INIT", << >>, << >>, "200", 0, << >>, << >>, {})
  /\ nev = 0

\* a mutation of the context: what was done to which path with which value,
\* how many changes the proxy emitted for it, how many changes were queued,
\* and whether the path had a value before
Mutation(mut, path, value, emitted, queued, had) ==
  [ mut |-> mut, path |-> path, value |-> value, emitted |-> emitted,
    queued |-> queued, had |-> had ]

NoMutation == Mutation(None, << >>, JUndefined, 0, 0, FALSE)

\* no invocation is in progress
NoInvocations == [ n \in {} |-> None ]

IdleCtx ==
  /\ inv = NoInvocations
  /\ pc = "idle"
  /\ mem = EmptyHash
  /\ pendingChanges = << >>
  /\ isUpdateScheduled = FALSE
  /\ microtask = FALSE
  /\ updatePromises = 0
  /\ inflight = << >>
  /\ expected = EmptyHash
  /\ nmut = 0
  /\ lastMut = NoMutation
  /\ lost = "none"

Init == InitReg /\ IdleCtx

\* the gateway state after a handler that closed the socket or not
AfterHandler(c, closed) ==
  gw' = IF closed THEN [ gw EXCEPT ![c] = "closing" ] ELSE gw

\* ------------------------------------------------------------------------
\* CONNECT
\* ------------------------------------------------------------------------

\* the subprotocol handleProtocols picks when it picks one
TransportProtocol == "graphql-transport-ws"

\* the context handleConnect creates, were it created acknowledged
InitialContextAcknowledged(c) ==
  [ f \in { FInit, FAck, FExtraConn } |->
      IF f = FExtraConn THEN serializeValue(JString(c))
      ELSE serializeValue(JTrue) ]

\* compressContext of the context handleConnect creates
InitialContext(c) ==
  [ f \in { FInit, FAck, FExtraConn } |->
      IF f = FExtraConn THEN serializeValue(JString(c))
      ELSE serializeValue(JFalse) ]

\* socket.createContext(data): HSET of the compressed context
createContext(h, data) == HSET(h, data)

\* handleConnect; supportedProtocol tells whether handleProtocols found a
\* supported subprotocol among the offered ones.  The 200 response carries
\* it in its Sec-WebSocket-Protocol header, recorded as the event's arg
handleConnect(c, supportedProtocol) ==
  /\ gw[c] = "none"
  /\ IF supportedProtocol
     THEN /\ ctxStore' = [ ctxStore EXCEPT ![c] = createContext(@, InitialContext(c)) ]
          /\ gw' = [ gw EXCEPT ![c] = "open" ]
          /\ ev' = WithArg(Returned(Event("CONNECT", c, << >>, "200", 0, << >>, << >>, {}),
                                    "response"),
                           TransportProtocol)
     ELSE /\ ctxStore' = ctxStore
          /\ gw' = [ gw EXCEPT ![c] = "closed" ]
          /\ ev' = Returned(Event("CONNECT", c, << >>, "400", 0, << >>, << >>, {}),
                            "response")
  /\ UNCHANGED << sets, payloads, live >>
  /\ UNCHANGED idleVars

\* ------------------------------------------------------------------------
\* MESSAGE
\* ------------------------------------------------------------------------

HasParams(raw) == \E f \in DOMAIN raw : f[1] = "connectionParams" /\ Len(f) > 1

\* the payload of a ConnectionInit message: absent, an object with one
\* string field, or an object without fields
InitPayloads == { "undefined", "object", "empty" }

\* flattenObject(payload, ''): the leaves of the payload
PayloadLeaves(payload) ==
  IF payload = "object" THEN [ p \in { << "token" >> } |-> JString(<< "k" >>) ]
  ELSE [ p \in {} |-> JUndefined ]

\* the value of a payload: its kind and its leaves
PayloadValue(payload) ==
  [ kind |-> IF payload = "undefined" THEN "undefined" ELSE "object",
    leaves |-> PayloadLeaves(payload) ]

\* buildContext(raw).connectionParams: an object made of the stored leaves
\* when there is one, else undefined
BuiltParams(raw) ==
  LET fields == { f \in DOMAIN raw : f[1] = "connectionParams" /\ Len(f) > 2 } IN
  IF fields = {} THEN [ kind |-> "undefined", leaves |-> PayloadLeaves("undefined") ]
  ELSE [ kind |-> "object",
         leaves |-> [ p \in { SubSeq(f, 3, Len(f)) : f \in fields } |->
                        deserializeValue(raw[<< "connectionParams", "." >> \o p]) ] ]

\* InitFlags without the write of connectionInitReceived
InitFlagsAckOnly == { FAck }

\* ctx.acknowledged = true; ctx.connectionInitReceived = true
InitFlags == { FAck, FInit }

\* The writes ConnectionInit makes through the proxy, as the one HSET their
\* batch becomes.  A write of the value a field already has queues nothing;
\* an object payload is flattened to its leaves, so that an object without
\* fields queues nothing; an undefined payload over rebuilt params is
\* written as the tagged text.
InitWrites(raw, payload) ==
  LET leaves == PayloadLeaves(payload)
      params == IF payload # "undefined"
                THEN { << "connectionParams", "." >> \o p : p \in DOMAIN leaves }
                ELSE IF HasParams(raw) THEN { << "connectionParams" >> }
                ELSE {}
  IN [ f \in InitFlags \cup params |->
         IF f \in InitFlags THEN serializeValue(JTrue)
         ELSE IF Len(f) > 2 THEN serializeValue(leaves[SubSeq(f, 3, Len(f))])
         ELSE serializeValue(JUndefined) ]

\* Forbids without the comparison: no answer of onConnect forbids
ForbidsNever(permittedOrPayload) == FALSE

\* permittedOrPayload === false
Forbids(permittedOrPayload) == permittedOrPayload = "false"

\* the ConnectionAck frame, with the object onConnect returned as payload
AckFrame(c, permittedOrPayload) ==
  [ to |-> c, type |-> "connection_ack", id |-> << >>, outcome |-> "ok",
    payload |-> IF permittedOrPayload = "object" THEN "object" ELSE None ]

\* message.payload and what onConnect returned (None when it was not called)
InitArg(payload, permitted) == [ payload |-> payload, permitted |-> permitted ]

MsgConnectionInit(c, permitted, payload) ==
  /\ gw[c] = "open"
  /\ LET raw == ctxStore[c] IN
     IF Truthy(BuiltFlag(raw, FInit))
     THEN /\ ev' = WithArg(Event("ConnectionInit", c, << >>, "200",
                                 TooManyInitialisationRequests, << >>, << >>, {}),
                           InitArg(payload, None))
          /\ AfterHandler(c, TRUE)
          /\ ctxStore' = ctxStore
     ELSE IF Forbids(permitted)
     THEN /\ ev' = WithArg(Event("ConnectionInit", c, << >>, "200", Forbidden,
                                 << >>, << Hook("onConnect", << >>, None) >>, {}),
                           InitArg(payload, permitted))
          /\ AfterHandler(c, TRUE)
          /\ ctxStore' = ctxStore
     ELSE /\ ctxStore' = [ ctxStore EXCEPT ![c] = HSET(@, InitWrites(raw, payload)) ]
          /\ ev' = WithArg(Event("ConnectionInit", c, << >>, "200", 0,
                                 << AckFrame(c, permitted) >>,
                                 << Hook("onConnect", << >>, None) >>, {}),
                           InitArg(payload, permitted))
          /\ AfterHandler(c, FALSE)
  /\ UNCHANGED << sets, payloads, live >>
  /\ UNCHANGED idleVars

MsgPing(c) ==
  /\ gw[c] = "open"
  /\ ev' = Event("Ping", c, << >>, "200", 0, << Frame(c, "pong", << >>) >>, << >>, {})
  /\ UNCHANGED << sets, payloads, ctxStore, gw, live >>
  /\ UNCHANGED idleVars

MsgPong(c) ==
  /\ gw[c] = "open"
  /\ ev' = Event("Pong", c, << >>, "200", 0, << >>, << >>, {})
  /\ UNCHANGED << sets, payloads, ctxStore, gw, live >>
  /\ UNCHANGED idleVars

\* parseMessage throws: invalid JSON or an unknown message type
MsgInvalid(c) ==
  /\ gw[c] = "open"
  /\ ev' = Event("Invalid", c, << >>, "200", BadRequest, << >>, << >>, {})
  /\ AfterHandler(c, TRUE)
  /\ UNCHANGED << sets, payloads, ctxStore, live >>
  /\ UNCHANGED idleVars

MsgSubscribe(c, id, q) ==
  /\ gw[c] = "open"
  /\ IF ~ Truthy(BuiltFlag(ctxStore[c], FAck))
     THEN /\ ev' = WithArg(Event("Subscribe", c, id, "200", Unauthorized,
                                 << >>, << >>, {}), q)
          /\ AfterHandler(c, TRUE)
          /\ UNCHANGED << sets, payloads, live >>
     ELSE IF isRegistered(sets, id)
     THEN /\ ev' = WithArg(Event("Subscribe", c, id, "200", SubscriberAlreadyExists,
                                 << >>, << >>, {}), q)
          /\ AfterHandler(c, TRUE)
          /\ UNCHANGED << sets, payloads, live >>
     ELSE /\ payloads' = [ payloads EXCEPT ![id] = q ]
          /\ CASE q \in RegistrableQueries ->
                    LET r == register(sets, TopicsOf(q), c, id) IN
                    /\ sets' = r.sets
                    /\ IF r.ok
                       THEN /\ ev' = WithArg(Event("Subscribe", c, id, "200", 0,
                                                   << >>, << >>, {}), q)
                            /\ live' = live \cup { << c, id, t >> : t \in TopicsOf(q) }
                            /\ AfterHandler(c, FALSE)
                       ELSE /\ ev' = WithArg(Event("Subscribe", c, id, "threw",
                                                   BadRequest, << >>, << >>, {}), q)
                            /\ live' = live
                            /\ AfterHandler(c, TRUE)
               [] q = "query" ->
                    /\ ev' = WithArg(Event("Subscribe", c, id, "200", 0,
                                           << Frame(c, "next", id) >>,
                                           << Hook("onComplete", id, q) >>, {}), q)
                    /\ AfterHandler(c, FALSE)
                    /\ UNCHANGED << sets, live >>
               [] OTHER ->
                    /\ ev' = WithArg(Event("Subscribe", c, id, "threw", BadRequest,
                                           << >>, << >>, {}), q)
                    /\ AfterHandler(c, TRUE)
                    /\ UNCHANGED << sets, live >>
  /\ UNCHANGED ctxStore
  /\ UNCHANGED idleVars

\* a MESSAGE on another route than $default: the custom route handler, when
\* there is one, answers it; result is what it returned
MsgCustomRoute(c, result) ==
  /\ gw[c] = "open"
  /\ ev' = Returned(Event("Custom", c, << >>, "200", 0, << >>, << >>, {}), result)
  /\ UNCHANGED << sets, payloads, ctxStore, gw, live >>
  /\ UNCHANGED idleVars

MsgComplete(c, id) ==
  /\ gw[c] = "open"
  /\ sets' = unregister(sets, c, id)
  /\ live' = { x \in live : ~ (x[1] = c /\ x[2] = id) }
  /\ IF payloads[id] = None
     THEN ev' = Event("Complete", c, id, "threw", 0, << >>, << >>, {})
     ELSE ev' = Event("Complete", c, id, "200", 0, << >>,
                      << Hook("onComplete", id, payloads[id]) >>, {})
  /\ UNCHANGED << payloads, ctxStore, gw >>
  /\ UNCHANGED idleVars

\* ------------------------------------------------------------------------
\* DISCONNECT
\* ------------------------------------------------------------------------

\* redis.get of the payload record: absent for an id no client ever used
PayloadOf(P, id) == IF id \in DOMAIN P THEN P[id] ELSE None

RECURSIVE CompleteHooks(_, _)
\* subscriptions.map(...): onComplete for every snapshot id that has a payload
CompleteHooks(subscriptions, P) ==
  IF subscriptions = << >> THEN << >>
  ELSE (IF PayloadOf(P, Head(subscriptions)) = None THEN << >>
        ELSE << Hook("onComplete", Head(subscriptions),
                     PayloadOf(P, Head(subscriptions))) >>)
       \o CompleteHooks(Tail(subscriptions), P)

handleDisconnect(c) ==
  /\ gw[c] \in { "open", "closing" }
  /\ LET subscriptions == getConnectionSubscriptions(sets, c)
         missing == \E i \in DOMAIN subscriptions :
                       PayloadOf(payloads, subscriptions[i]) = None
         acked == Truthy(BuiltFlag(ctxStore[c], FAck))
         owned == SMEMBERS(sets, ConnKey(c))
         completes == CompleteHooks(subscriptions, payloads)
     IN /\ sets' = disconnect(sets, c)
        /\ IF missing
           THEN ev' = Event("DISCONNECT", c, << >>, "threw", 0, << >>,
                            completes, owned)
           ELSE ev' = Returned(
                        Event("DISCONNECT", c, << >>, "200", 0, << >>,
                              completes
                              \o (IF acked THEN << Hook("onDisconnect", << >>, None) >>
                                  ELSE << >>)
                              \o << Hook("onClose", << >>, None) >>, owned),
                        "response")
  /\ gw' = [ gw EXCEPT ![c] = "closed" ]
  /\ live' = { x \in live : x[1] # c }
  /\ UNCHANGED << payloads, ctxStore >>
  /\ UNCHANGED idleVars

\* ------------------------------------------------------------------------
\* publish
\* ------------------------------------------------------------------------

\* what the gateway can answer to a send
Outcomes == { "ok", "gone", "err" }

\* a connection the gateway still holds is never reported gone, one it no
\* longer holds never takes a message
PossibleOutcome(c, o) ==
  IF c \in ConnIds /\ gw[c] = "open" THEN o \in { "ok", "err" }
  ELSE o \in { "gone", "err" }

\* SettleAll with Promise.all in the place of Promise.allSettled: a send
\* that fails rejects the whole and publish throws
SettleAllRejecting(channels, outs) ==
  [ threw |-> \E i \in DOMAIN channels : outs[i] # "ok",
    results |-> [ i \in DOMAIN channels |->
                   [ to |-> channels[i].connectionId, type |-> "next",
                     id |-> channels[i].subscriptionId, outcome |-> outs[i] ] ] ]

\* Promise.allSettled over the sends: every send is made and its outcome
\* kept, none of them rejects the whole
SettleAll(channels, outs) ==
  [ threw |-> FALSE,
    results |-> [ i \in DOMAIN channels |->
                   [ to |-> channels[i].connectionId, type |-> "next",
                     id |-> channels[i].subscriptionId, outcome |-> outs[i] ] ] ]

RECURSIVE GoneLoop(_, _, _)
\* for each rejected result with status 410: await this.disconnect(connectionId)
GoneLoop(S, results, i) ==
  IF i > Len(results) THEN S
  ELSE GoneLoop(IF results[i].outcome = "gone" THEN disconnect(S, results[i].to)
                ELSE S,
                results, i + 1)

publish(topic, outs) ==
  LET channels == getChannels(sets, topic)
      settled == SettleAll(channels, outs)
      gone == { settled.results[i].to :
                  i \in { j \in DOMAIN channels : outs[j] = "gone" } }
      owned == UNION { SMEMBERS(sets, ConnKey(c)) : c \in gone }
  IN /\ DOMAIN outs = DOMAIN channels
     /\ \A i \in DOMAIN channels : PossibleOutcome(channels[i].connectionId, outs[i])
     /\ IF settled.threw
        THEN /\ ev' = Event("publish", << >>, topic, "threw", 0, settled.results,
                            << >>, {})
             /\ UNCHANGED << sets, live >>
        ELSE /\ sets' = GoneLoop(sets, settled.results, 1)
             /\ live' = { x \in live : x[1] \notin gone }
             /\ ev' = Event("publish", << >>, topic, "200", 0, settled.results,
                            << >>, owned)
     /\ UNCHANGED << payloads, ctxStore, gw >>
     /\ UNCHANGED idleVars

\* one answer of the gateway for each send publish makes
Publish ==
  \E topic \in Topics :
    \E outs \in [ 1..Len(getChannels(sets, topic)) -> Outcomes ] : publish(topic, outs)

Connect == \E c \in ConnIds : \E ok \in BOOLEAN : handleConnect(c, ok)

Disconnect == \E c \in ConnIds : handleDisconnect(c)

ConnectionInit ==
  \E c \in ConnIds : \E permitted \in { "undefined", "false", "object" } :
    \E payload \in InitPayloads : MsgConnectionInit(c, permitted, payload)

Ping == \E c \in ConnIds : MsgPing(c)

Pong == \E c \in ConnIds : MsgPong(c)

Invalid == \E c \in ConnIds : MsgInvalid(c)

Subscribe ==
  \E c \in ConnIds : \E id \in SubIds : \E q \in Queries : MsgSubscribe(c, id, q)

Complete == \E c \in ConnIds : \E id \in SubIds : MsgComplete(c, id)

CustomRoute == \E c \in ConnIds : \E result \in { None, "response" } : MsgCustomRoute(c, result)

\* one more event is handled, to its end
Step(A) == nev < MaxEvents /\ nev' = nev + 1 /\ A /\ UNCHANGED inv

Next ==
  \/ Step(Connect)
  \/ Step(Disconnect)
  \/ Step(ConnectionInit)
  \/ Step(Ping)
  \/ Step(Pong)
  \/ Step(Invalid)
  \/ Step(Subscribe)
  \/ Step(Complete)
  \/ Step(CustomRoute)
  \/ Step(Publish)

Spec == Init /\ [][Next]_vars

\* ------------------------------------------------------------------------
\* Properties of the registry under events (Spec)
\* ------------------------------------------------------------------------

\* the member register stores in a topic set for (c, s)
Tuple(c, s) == TopicSubData(ConnKey(c), SubKey(s))

TopicMembers(t) == SMEMBERS(sets, TopicKey(t))

ChannelPairs(S, t) ==
  { << ch.connectionId, ch.subscriptionId >> : ch \in Range(getChannels(S, t)) }

LivePairs(t) == { << x[1], x[2] >> : x \in { y \in live : y[3] = t } }

\* no key of the registry refers to connection c, nor to a subscription
\* record c owned
NoReference(c, ownedKeys) ==
  /\ ~ EXISTS(sets, ConnKey(c))
  /\ \A t \in Topics : \A m \in TopicMembers(t) : Split(m, "#")[1] # ConnKey(c)
  /\ \A k \in ownedKeys : ~ EXISTS(sets, k)

\* C1: after any sequence of events getChannels(t) returns exactly the
\* (cid, sid) pairs subscribed to t and not completed or disconnected since.
C1_RegistrationIntegrity ==
  \A t \in Topics : ChannelPairs(sets, t) = LivePairs(t)

\* C2: once disconnect(cid) has completed no key in any namespace refers to
\* cid: no conn:{cid}, no tuple of cid in a topic, no sub:{sid} cid owned.
C2_DisconnectTotality ==
  ev.type = "DISCONNECT" => NoReference(ev.conn, ev.owned)

\* C3 (I1): after every successful invocation every tuple (cid, sid) of a
\* topic has its record sub:{sid} and is listed in conn:{cid}.
C3_TupleHasRecordAndOwner ==
  ev.status = "200" =>
    \A t \in Topics : \A c \in ConnIds : \A s \in SubIds :
      Tuple(c, s) \in TopicMembers(t) =>
        /\ EXISTS(sets, SubKey(s))
        /\ SubKey(s) \in SMEMBERS(sets, ConnKey(c))

\* C4 (I2): after every successful invocation every topic listed by a
\* subscription that a connection owns holds the tuple of that connection
\* and that subscription.
C4_OwnedTopicsHoldTuple ==
  ev.status = "200" =>
    \A c \in ConnIds : \A s \in SubIds :
      SubKey(s) \in SMEMBERS(sets, ConnKey(c)) =>
        \A topicKey \in SMEMBERS(sets, SubKey(s)) :
          Tuple(c, s) \in SMEMBERS(sets, topicKey)

\* C5: after a DISCONNECT of c has been handled the context record of c and
\* the payload record of every subscription c owned are absent.
C5_DisconnectDeletesRecords ==
  (ev.type = "DISCONNECT" /\ ev.status = "200") =>
    /\ ctxStore[ev.conn] = EmptyHash
    /\ \A s \in SubIds : SubKey(s) \in ev.owned => payloads[s] = None

Owners(s) == { c \in ConnIds : SubKey(s) \in SMEMBERS(sets, ConnKey(c)) }

\* C6: every existing subscription is listed in exactly one connection's
\* owned set and every tuple that carries its id names that connection.
C6_OneOwner ==
  \A s \in SubIds :
    EXISTS(sets, SubKey(s)) =>
      \E c \in ConnIds :
        /\ Owners(s) = {c}
        /\ \A t \in Topics : \A c2 \in ConnIds :
             Tuple(c2, s) \in TopicMembers(t) => c2 = c

SendsTo(sends, c, s) ==
  { i \in DOMAIN sends :
      sends[i].to = c /\ sends[i].id = s /\ sends[i].type = "next" }

\* C7: publish(t, payload) issues exactly one send per tuple of t, to the
\* tuple's connection and framed as next with the tuple's subscription id,
\* and no other send.
C7_PublishOneSendPerTuple ==
  [][ (nev' # nev /\ ev'.type = "publish") =>
        /\ \A c \in ConnIds : \A s \in SubIds :
             Cardinality(SendsTo(ev'.sends, c, s)) =
               IF Tuple(c, s) \in SMEMBERS(sets, TopicKey(ev'.sid)) THEN 1 ELSE 0
        /\ Len(ev'.sends) = Cardinality(SMEMBERS(sets, TopicKey(ev'.sid))) ]_vars

GoneConns(sends) == { sends[i].to : i \in { j \in DOMAIN sends : sends[j].outcome = "gone" } }

\* C8: when publish has seen 410 for connection c the registry satisfies the
\* post-condition of disconnect(c) when publish returns.
C8_GoneCleanup ==
  ev.type = "publish" =>
    \A c \in GoneConns(ev.sends) : NoReference(c, ev.owned)

\* C9: publish completes normally whatever the sends do, and every channel
\* of the topic gets its send.
C9_PublishNeverThrows ==
  [][ (nev' # nev /\ ev'.type = "publish") =>
        /\ ev'.status = "200"
        /\ LET channels == getChannels(sets, ev'.sid) IN
           /\ Len(ev'.sends) = Len(channels)
           /\ \A i \in DOMAIN channels :
                /\ ev'.sends[i].to = channels[i].connectionId
                /\ ev'.sends[i].id = channels[i].subscriptionId ]_vars

\* a publish that met a gone connection and another failure and returned
C9_Witness ==
  /\ ev.type = "publish"
  /\ ev.status = "200"
  /\ \E i, j \in DOMAIN ev.sends :
       ev.sends[i].outcome = "gone" /\ ev.sends[j].outcome = "err"

\* the events the gateway hands to the handler
GatewayEvents ==
  { "CONNECT", "DISCONNECT", "ConnectionInit", "Ping", "Pong", "Invalid",
    "Subscribe", "Complete", "Custom" }

\* C11: for every event type the handler awaits the socket's flush before
\* it returns a 200 response.
C11_FlushBeforeReturn ==
  (ev.type \in GatewayEvents /\ ev.status = "200") => ev.flushed

\* the stored flag of a connection, as the text in the hash
StoredTrueIn(h, field) ==
  field \in DOMAIN h /\ h[field] = << "__", "boolean", "__", "true" >>

StoredTrue(c, field) == StoredTrueIn(ctxStore[c], field)

\* C12: a Subscribe handled while the stored context has acknowledged =
\* false closes the socket with 4401 and does nothing else: no payload
\* record is stored, no hook or execution runs, nothing is registered.
C12_UnauthorizedSubscribe ==
  [][ (nev' # nev /\ ev'.type = "Subscribe" /\ ~ StoredTrue(ev'.conn, FAck)) =>
        /\ ev'.status = "200"
        /\ ev'.close = Unauthorized
        /\ ev'.sends = << >>
        /\ ev'.hooks = << >>
        /\ payloads' = payloads
        /\ sets' = sets
        /\ live' = live ]_vars

\* a Subscribe with a registrable operation came before any ConnectionInit
C12_Witness ==
  /\ ev.type = "Subscribe"
  /\ ev.arg \in ChannelQueries
  /\ ev.close = Unauthorized
  /\ ~ StoredTrue(ev.conn, FAck)

C14_InitAccepted ==
  [][ (/\ nev' # nev
       /\ ev'.type = "ConnectionInit"
       /\ ~ StoredTrue(ev'.conn, FInit)
       /\ ev'.arg.permitted # "false") =>
        /\ StoredTrueIn(ctxStore'[ev'.conn], FInit)
        /\ StoredTrueIn(ctxStore'[ev'.conn], FAck)
        /\ BuiltParams(ctxStore'[ev'.conn]) = PayloadValue(ev'.arg.payload)
        /\ Len(ev'.sends) = 1
        /\ ev'.sends[1].to = ev'.conn
        /\ ev'.sends[1].type = "connection_ack"
        /\ ev'.sends[1].payload =
             (IF ev'.arg.permitted = "object" THEN "object" ELSE None) ]_vars

\* the Subscribe just handled found its id registered and was refused with
\* 4409, and registry and payload records are as they were
RefusedAsDuplicate ==
  /\ ev'.status = "200"
  /\ ev'.close = SubscriberAlreadyExists
  /\ ev'.sends = << >>
  /\ ev'.hooks = << >>
  /\ sets' = sets
  /\ payloads' = payloads

\* C15, as stated: a Subscribe whose id is already registered closes the
\* socket with 4409 and leaves the registration and the stored payload
\* record unchanged.
C15_DuplicateSubscribe ==
  [][ (/\ nev' # nev
       /\ ev'.type = "Subscribe"
       /\ EXISTS(sets, SubKey(ev'.sid))) => RefusedAsDuplicate ]_vars

\* C15, amended: a Subscribe on an acknowledged connection whose id is
\* already registered closes the socket with 4409 and leaves the
\* registration and the stored payload record unchanged.
C15_DuplicateSubscribeAcknowledged ==
  [][ (/\ nev' # nev
       /\ ev'.type = "Subscribe"
       /\ StoredTrue(ev'.conn, FAck)
       /\ EXISTS(sets, SubKey(ev'.sid))) => RefusedAsDuplicate ]_vars

\* a Subscribe with another operation was refused for an id that is registered
C15_Witness ==
  /\ ev.type = "Subscribe"
  /\ ev.close = SubscriberAlreadyExists
  /\ EXISTS(sets, SubKey(ev.sid))
  /\ payloads[ev.sid] # ev.arg

\* C16: when onConnect returns false for a ConnectionInit the socket is
\* closed with 4403, no ConnectionAck is sent and the init and ack flags of
\* the connection stay false.
C16_ForbiddenInit ==
  [][ (/\ nev' # nev
       /\ ev'.type = "ConnectionInit"
       /\ ev'.arg.permitted = "false") =>
        /\ ev'.close = Forbidden
        /\ ev'.sends = << >>
        /\ ~ StoredTrueIn(ctxStore'[ev'.conn], FInit)
        /\ ~ StoredTrueIn(ctxStore'[ev'.conn], FAck)
        /\ ctxStore' = ctxStore ]_vars

\* onConnect returned false for a ConnectionInit that carried an object
C16_Witness ==
  /\ ev.type = "ConnectionInit"
  /\ ev.arg.permitted = "false"
  /\ ev.arg.payload = "object"
  /\ ev.close = Forbidden

\* C17: when an acknowledged connection c sends Subscribe with a fresh id s
\* and the resolver returns a registrable channel with topics T, then after
\* the invocation every topic in T holds the tuple (c, s), the payload
\* record of s holds the client's payload, and no next or complete frame
\* has been sent.
C17_SubscribeRegisters ==
  [][ (/\ nev' # nev
       /\ ev'.type = "Subscribe"
       /\ StoredTrue(ev'.conn, FAck)
       /\ ~ EXISTS(sets, SubKey(ev'.sid))
       /\ ev'.arg \in ChannelQueries) =>
        /\ ev'.status = "200"
        /\ ev'.close = 0
        /\ \A t \in TopicsOf(ev'.arg) :
             Tuple(ev'.conn, ev'.sid) \in SMEMBERS(sets', TopicKey(t))
        /\ payloads'[ev'.sid] = ev'.arg
        /\ ev'.sends = << >> ]_vars

\* a Subscribe to two topics was registered
C17_Witness ==
  /\ ev.type = "Subscribe"
  /\ ev.arg = "subTU"
  /\ ev.status = "200"
  /\ ev.close = 0
  /\ \A t \in Topics : Tuple(ev.conn, ev.sid) \in TopicMembers(t)

\* the subscription id a key pubsub:sub:{sid} was built from
IdOfSubKey(k) == SubSeq(k, 5, Len(k))

\* the ids of the subscriptions in a set of subscription keys
OwnedIds(keys) == { IdOfSubKey(k) : k \in keys }

\* C18: on every DISCONNECT event the hooks run in this order: onComplete
\* once for each subscription the connection owned when the event arrived,
\* each with its stored payload; then onDisconnect if and only if the context
\* is acknowledged; then onClose, unconditionally.
C18_DisconnectHooks ==
  ev.type = "DISCONNECT" =>
    LET ids == OwnedIds(ev.owned)
        n == Cardinality(ids)
        acked == StoredTrue(ev.conn, FAck)
        m == IF acked THEN n + 1 ELSE n
    IN /\ Len(ev.hooks) = m + 1
       /\ \A id \in ids :
            \E i \in 1..n : ev.hooks[i] = Hook("onComplete", id, payloads[id])
       /\ acked => ev.hooks[n + 1] = Hook("onDisconnect", << >>, None)
       /\ ev.hooks[m + 1] = Hook("onClose", << >>, None)

\* C19: handling Complete(c, id) removes (c, id) from every topic before
\* onComplete runs, and invokes onComplete exactly once with the payload
\* stored for id.
C19_CompleteUnregisters ==
  [][ (/\ nev' # nev
       /\ ev'.type = "Complete"
       /\ \E t \in Topics : << ev'.conn, ev'.sid, t >> \in live) =>
        /\ \A t \in Topics :
             Tuple(ev'.conn, ev'.sid) \notin SMEMBERS(sets', TopicKey(t))
        /\ ev'.hooks = << Hook("onComplete", ev'.sid, payloads[ev'.sid]) >> ]_vars

\* the registry S holds nothing for the subscription s of connection c: no
\* record sub:{s}, no mention of it in conn:{c}, no tuple (c, s) in a topic
NoEntryIn(S, c, s) ==
  /\ ~ EXISTS(S, SubKey(s))
  /\ SubKey(s) \notin SMEMBERS(S, ConnKey(c))
  /\ \A t \in Topics : Tuple(c, s) \notin SMEMBERS(S, TopicKey(t))

\* the Subscribe just handled came on an acknowledged connection with an id
\* that was not registered, so that its payload was stored
PayloadStored ==
  /\ nev' # nev
  /\ ev'.type = "Subscribe"
  /\ StoredTrue(ev'.conn, FAck)
  /\ ~ EXISTS(sets, SubKey(ev'.sid))

\* C23: when the operation of a Subscribe yields a single result, exactly one
\* next frame with the id is sent, then onComplete runs and no complete frame
\* is sent, and the registry holds no entry for the id afterwards.
C23_SingleResult ==
  [][ (PayloadStored /\ ev'.arg = "query") =>
        /\ ev'.status = "200"
        /\ ev'.sends = << Frame(ev'.conn, "next", ev'.sid) >>
        /\ ev'.hooks = << Hook("onComplete", ev'.sid, ev'.arg) >>
        /\ NoEntryIn(sets', ev'.conn, ev'.sid) ]_vars

\* C24: when something throws in a Subscribe after its payload was stored,
\* the socket is closed with 4400, the error is raised to the host, and the
\* registry holds no entry for (connection, id) afterwards.
C24_SubscribeThrows ==
  [][ (PayloadStored /\ ev'.arg \in { "bad", "subNone" }) =>
        /\ ev'.status = "threw"
        /\ ev'.close = BadRequest
        /\ NoEntryIn(sets', ev'.conn, ev'.sid) ]_vars

\* C28: after createContext(initial) for a connection id the stored record
\* consists of exactly the flattened fields of initial, whatever record the
\* id had before.
C28_CreateContextReplaces ==
  \A c \in ConnIds :
    createContext(ctxStore[c], InitialContext(c)) = InitialContext(c)

\* the registry after channel.register(c, s) of pubsub.subscribe(...T) was
\* applied k times to the registry S
RECURSIVE Registered(_, _, _, _, _)
Registered(S, T, c, s, k) ==
  IF k = 0 THEN S ELSE Registered(register(S, T, c, s).sets, T, c, s, k - 1)

\* number of applications compared with one
MaxApplications == 2

\* C22: from any registry state, register(cid, sid, topics) applied k >= 1
\* times gives the registry that one application gives, and every topic then
\* holds exactly one tuple for (cid, sid).
C22_RegisterIdempotent ==
  \A c \in ConnIds : \A s \in SubIds : \A q \in ChannelQueries :
    LET once == Registered(sets, TopicsOf(q), c, s, 1) IN
    /\ \A k \in 1..MaxApplications : Registered(sets, TopicsOf(q), c, s, k) = once
    /\ \A t \in TopicsOf(q) :
         Cardinality({ m \in SMEMBERS(once, TopicKey(t)) : m = Tuple(c, s) }) = 1

\* a Subscribe registered a channel of two topics, and registering the same
\* triple again leaves the registry as it is
C22_Witness ==
  /\ ev.type = "Subscribe"
  /\ ev.arg = "subTU"
  /\ ev.status = "200"
  /\ ev.close = 0
  /\ Registered(sets, TopicsOf(ev.arg), ev.conn, ev.sid, 1) = sets
  /\ \E c \in ConnIds : \E s \in SubIds :
       << c, s >> # << ev.conn, ev.sid >> /\ SubKey(s) \in SMEMBERS(sets, ConnKey(c))

C33_IdsRecovered ==
  [][ (/\ nev' = nev + 1
       /\ ev'.type = "Subscribe" /\ ev'.status = "200" /\ ev'.close = 0
       /\ ev'.arg \in ChannelQueries) =>
        \A t \in TopicsOf(ev'.arg) :
          /\ [ connectionId |-> ev'.conn, subscriptionId |-> ev'.sid ]
               \in Range(getChannels(sets', t))
          /\ ev'.sid \in Range(getConnectionSubscriptions(sets', ev'.conn))
          /\ t \in Range(getRegisteredTopics(sets', ev'.sid)) ]_vars

\* what the registry holds for connection c: its tuples in the topic sets,
\* its owned set, and the records of the subscriptions it owns
RegistryOf(S, c) ==
  [ tuples |-> { p \in S : \E t \in Topics : \E s \in SubIds :
                            p = << TopicKey(t), Tuple(c, s) >> },
    owned |-> SMEMBERS(S, ConnKey(c)),
    records |-> { p \in S : p[1] \in SMEMBERS(S, ConnKey(c)) } ]

\* C35: a Subscribe or Complete handled for one connection leaves the
\* tuples, the owned set and the subscription records of every other
\* connection as they were.
C35_ConnectionsIndependent ==
  [][ (nev' = nev + 1 /\ ev'.type \in { "Subscribe", "Complete" }) =>
        \A b \in ConnIds \ { ev'.conn } :
          RegistryOf(sets', b) = RegistryOf(sets, b) ]_vars

\* ------------------------------------------------------------------------
\* SpecCtx: the context manager within one MESSAGE invocation of connection
\* CtxConn.  The handler has loaded the context (socket.context()) and runs;
\* hooks and the handler write to the proxy; the microtask drains the queue;
\* the handler awaits socket.flushChanges() and returns 200.  The Redis
\* server applies the commands of the client in the order they were issued,
\* at its own pace.
\* ------------------------------------------------------------------------

CtxConn == << "a" >>

FExtraN == << "extra", ".", "n" >>

\* the properties the invocation writes and the values it writes: booleans,
\* a plain string, and the string "__boolean__true"
CtxPaths == { FAck, FExtraN }
CtxValues == { JTrue, JFalse, JString(<< "k" >>),
               JString(<< "__", "boolean", "__", "true" >>) }

\* an object or array value, by name
JObject(name) == [ t |-> "object", v |-> << name >> ]

Entry(k, value) == [ key |-> k, value |-> value ]

\* Object.entries of the objects the invocation assigns:
\*   one     { n: "k" }
\*   empty   {}
\*   list    [ "k" ]
\*   dotted  { "n.m": "k", n: { m: "j" } }, inner is its { m: "j" }
ObjectEntries(name) ==
  CASE name = "one" -> << Entry(<< "n" >>, JString(<< "k" >>)) >>
    [] name = "list" -> << Entry(<< "0" >>, JString(<< "k" >>)) >>
    [] name = "dotted" -> << Entry(<< "n", ".", "m" >>, JString(<< "k" >>)),
                             Entry(<< "n" >>, JObject("inner")) >>
    [] name = "inner" -> << Entry(<< "m" >>, JString(<< "j" >>)) >>
    [] OTHER -> << >>

\* the path an object is assigned at, and the objects assigned
AssignPaths == { << "extra" >> }
AssignValues == { JObject("one"), JObject("empty"), JObject("list"), JObject("dotted") }

RECURSIVE flattenObject(_, _, _)
RECURSIVE FlattenEntries(_, _, _)
\* flattenObject(obj, prefix, target): target with the leaves of obj, each
\* under prefix + "." + its keys; a later leaf of the same path replaces an
\* earlier one
flattenObject(obj, prefix, target) ==
  IF obj.t = "object" THEN FlattenEntries(ObjectEntries(obj.v[1]), prefix, target)
  ELSE HSET(target, [ f \in { prefix } |-> obj ])

\* the loop over Object.entries(obj)
FlattenEntries(entries, prefix, target) ==
  IF entries = << >> THEN target
  ELSE LET fullKey == prefix \o << "." >> \o Head(entries).key IN
       FlattenEntries(Tail(entries), prefix,
                      flattenObject(Head(entries).value, fullKey, target))

RECURSIVE LeafList(_, _)
RECURSIVE EntryLeaves(_, _)
\* the leaves of a value as << path, value >> pairs, one for each leaf
LeafList(value, prefix) ==
  IF value.t = "object" THEN EntryLeaves(ObjectEntries(value.v[1]), prefix)
  ELSE << << prefix, value >> >>

EntryLeaves(entries, prefix) ==
  IF entries = << >> THEN << >>
  ELSE LeafList(Head(entries).value, prefix \o << "." >> \o Head(entries).key)
       \o EntryLeaves(Tail(entries), prefix)

\* path is P or lies under P
Under(path, P) == Len(path) >= Len(P) /\ SubSeq(path, 1, Len(P)) = P

\* compressContext(context), on the leaves of the context: the two flags
\* when they are not undefined, and the leaves of connectionParams and extra
compressContext(context) ==
  [ f \in { g \in DOMAIN context :
              \/ g \in { FInit, FAck } /\ context[g].t # "undefined"
              \/ g[1] \in { "connectionParams", "extra" } /\ Len(g) > 2 } |->
      serializeValue(context[f]) ]

\* buildContext(raw), as the leaves of the context
BuiltLeaves(raw) ==
  [ f \in DOMAIN raw \cup { FInit, FAck } |->
      IF f \in DOMAIN raw THEN deserializeValue(raw[f]) ELSE JFalse ]

\* the stored hash of CtxConn after CONNECT; the other state of Spec is idle
InitCtxStore ==
  /\ sets = {}
  /\ payloads = [ s \in SubIds |-> None ]
  /\ ctxStore = [ c \in ConnIds |->
                   IF c = CtxConn THEN InitialContext(c) ELSE EmptyHash ]
  /\ gw = [ c \in ConnIds |-> IF c = CtxConn THEN "open" ELSE "none" ]
  /\ live = {}
  /\ ev = WithArg(Returned(Event("CONNECT", CtxConn, << >>, "200", 0, << >>, << >>, {}),
                           "response"),
                  TransportProtocol)
  /\ nev = 1

InitCtx ==
  /\ InitCtxStore
  /\ inv = NoInvocations
  /\ pc = "running"
  /\ mem = BuiltLeaves(InitialContext(CtxConn))
  /\ pendingChanges = << >>
  /\ isUpdateScheduled = FALSE
  /\ microtask = FALSE
  /\ updatePromises = 0
  /\ inflight = << >>
  /\ expected = InitialContext(CtxConn)
  /\ nmut = 0
  /\ lastMut = NoMutation
  /\ lost = "none"

Change(mut, path, value) == [ mut |-> mut, path |-> path, value |-> value ]

\* scheduleUpdate(): when the flag is down it is raised and flushChanges is
\* queued as a microtask
scheduleUpdate ==
  /\ isUpdateScheduled' = TRUE
  /\ microtask' = (microtask \/ ~ isUpdateScheduled)

\* the value the property had, taken as undefined whatever it was
OldValueUndefined(path) == JUndefined

\* the set trap's oldValue: the value the property had
OldValue(path) == IF path \in DOMAIN mem THEN mem[path] ELSE JUndefined

\* the proxy's set trap on a scalar, and the callback of the context
\* manager: a change is queued when the value differs, and an update is
\* scheduled
CtxSet(path, value) ==
  /\ pc = "running"
  /\ nmut < MaxMutations
  /\ nmut' = nmut + 1
  /\ mem' = [ f \in DOMAIN mem \cup {path} |-> IF f = path THEN value ELSE mem[f] ]
  /\ IF OldValue(path) # value
     THEN /\ pendingChanges' =
               Append(pendingChanges, Change("set", path, serializeValue(value)))
          /\ scheduleUpdate
          /\ expected' = HSET(expected, [ f \in {path} |-> serializeValue(value) ])
     ELSE UNCHANGED << pendingChanges, isUpdateScheduled, microtask, expected >>
  /\ lastMut' = Mutation("set", path, value, IF OldValue(path) # value THEN 1 ELSE 0,
                         Len(pendingChanges') - Len(pendingChanges), path \in DOMAIN mem)
  /\ UNCHANGED << pc, updatePromises, inflight, lost >>
  /\ UNCHANGED regVars
  /\ UNCHANGED inv

RECURSIVE Changes(_, _)
\* for (const [flatPath, flatValue] of Object.entries(flattened)): one set
\* change for each path of flattened
Changes(flattened, paths) ==
  IF paths = << >> THEN << >>
  ELSE << Change("set", Head(paths), serializeValue(flattened[Head(paths)])) >>
       \o Changes(flattened, Tail(paths))

\* the proxy's set trap on an object or array, and the callback of the
\* context manager: the value is flattened and one change is queued for each
\* path of the flattened value; an update is scheduled even when there is none
CtxAssign(path, value) ==
  /\ pc = "running"
  /\ nmut < MaxMutations
  /\ nmut' = nmut + 1
  /\ LET flattened == flattenObject(value, path, EmptyHash)
         kept == { f \in DOMAIN mem : ~ Under(f, path) }
     IN /\ mem' = [ f \in kept \cup DOMAIN flattened |->
                      IF f \in DOMAIN flattened THEN flattened[f] ELSE mem[f] ]
        /\ pendingChanges' =
             pendingChanges \o Changes(flattened, SetToSeq(DOMAIN flattened))
        /\ expected' = HSET(expected, [ f \in DOMAIN flattened |->
                                          serializeValue(flattened[f]) ])
        /\ lastMut' = Mutation("set", path, value, 1, Cardinality(DOMAIN flattened),
                               \E f \in DOMAIN mem : Under(f, path))
  /\ scheduleUpdate
  /\ UNCHANGED << pc, updatePromises, inflight, lost >>
  /\ UNCHANGED regVars
  /\ UNCHANGED inv

\* the proxy's deleteProperty trap and the callback of the context manager:
\* the property goes with everything it holds, one del change is queued for
\* its path
CtxDelete(path) ==
  /\ pc = "running"
  /\ nmut < MaxMutations
  /\ nmut' = nmut + 1
  /\ mem' = [ f \in { g \in DOMAIN mem : ~ Under(g, path) } |-> mem[f] ]
  /\ pendingChanges' = Append(pendingChanges, Change("del", path, serializeValue(JNull)))
  /\ scheduleUpdate
  /\ expected' = HDEL(expected, {path})
  /\ lastMut' = Mutation("del", path, JNull, 1, 1,
                         \E f \in DOMAIN mem : Under(f, path))
  /\ UNCHANGED << pc, updatePromises, inflight, lost >>
  /\ UNCHANGED regVars
  /\ UNCHANGED inv

RECURSIVE Batches(_)
\* changes.reduce(...): runs of the same mutation become one batch
Batches(changes) ==
  IF changes = << >> THEN << >>
  ELSE LET rest == Batches(SubSeq(changes, 1, Len(changes) - 1))
           last == changes[Len(changes)]
       IN IF rest # << >> /\ rest[Len(rest)].mut = last.mut
          THEN [ rest EXCEPT ![Len(rest)].pairs = Append(@, << last.path, last.value >>) ]
          ELSE Append(rest, [ mut |-> last.mut, pairs |-> << << last.path, last.value >> >> ])

RECURSIVE FromEntries(_)
\* Object.fromEntries(pairs): a later pair of the same path wins
FromEntries(pairs) ==
  IF pairs = << >> THEN EmptyHash
  ELSE HSET(FromEntries(SubSeq(pairs, 1, Len(pairs) - 1)),
            [ f \in { pairs[Len(pairs)][1] } |-> pairs[Len(pairs)][2] ])

\* the command batchUpdate issues for a batch
Command(batch) ==
  IF batch.mut = "del"
  THEN [ op |-> "HDEL", fields |-> { batch.pairs[i][1] : i \in DOMAIN batch.pairs },
         kv |-> EmptyHash ]
  ELSE [ op |-> "HSET", fields |-> {}, kv |-> FromEntries(batch.pairs) ]

\* batchUpdate(changes): the commands are issued and none is awaited
batchUpdate(changes) ==
  LET batches == Batches(changes) IN [ i \in DOMAIN batches |-> Command(batches[i]) ]

\* the flushChanges microtask up to its await.  With an empty queue it
\* returns at once and the flag stays up; else the queue is drained, the flag
\* is taken down, the commands are issued and the promise of batchUpdate
\* joins updatePromises
FlushChanges ==
  /\ microtask
  /\ microtask' = FALSE
  /\ IF pendingChanges = << >>
     THEN UNCHANGED << pendingChanges, isUpdateScheduled, inflight, updatePromises, lost >>
     ELSE /\ inflight' = inflight \o batchUpdate(pendingChanges)
          /\ pendingChanges' = << >>
          /\ isUpdateScheduled' = FALSE
          /\ updatePromises' = updatePromises + 1
          /\ lost' = IF lost = "failed" THEN "reflushed" ELSE lost
  /\ UNCHANGED << pc, mem, expected, nmut, lastMut >>
  /\ UNCHANGED regVars
  /\ UNCHANGED inv

\* flushChanges after its await: the promise of batchUpdate is resolved when
\* batchUpdate returns, the finally block takes it out of updatePromises
FlushChangesDone ==
  /\ updatePromises > 0
  /\ updatePromises' = updatePromises - 1
  /\ UNCHANGED << pc, mem, pendingChanges, isUpdateScheduled, microtask, inflight, expected,
                  nmut, lastMut, lost >>
  /\ UNCHANGED regVars
  /\ UNCHANGED inv

\* the handler awaits socket.flushChanges(): waitAllSync settles when the
\* promises in updatePromises have settled, and they all have.  The handler
\* reaches this line after an await, so no microtask is left queued.
WaitAllSync ==
  /\ pc = "running"
  /\ ~ microtask
  /\ pc' = "flushed"
  /\ UNCHANGED << mem, pendingChanges, isUpdateScheduled, microtask,
                  updatePromises, inflight, expected, nmut, lastMut, lost >>
  /\ UNCHANGED regVars
  /\ UNCHANGED inv

\* return { statusCode: 200 }
Return200 ==
  /\ pc = "flushed"
  /\ pc' = "returned"
  /\ UNCHANGED << mem, pendingChanges, isUpdateScheduled, microtask,
                  updatePromises, inflight, expected, nmut, lastMut, lost >>
  /\ UNCHANGED regVars
  /\ UNCHANGED inv

\* the server applies the oldest command of the client
RedisApply ==
  /\ inflight # << >>
  /\ LET cmd == Head(inflight) IN
     ctxStore' = [ ctxStore EXCEPT ![CtxConn] =
                     IF cmd.op = "HDEL" THEN HDEL(@, cmd.fields) ELSE HSET(@, cmd.kv) ]
  /\ inflight' = Tail(inflight)
  /\ UNCHANGED << pc, mem, pendingChanges, isUpdateScheduled, microtask,
                  updatePromises, expected, nmut, lastMut, lost >>
  /\ UNCHANGED << sets, payloads, gw, live, ev, nev, inv >>

\* the oldest command of the client fails (the server rejects it or the
\* connection breaks): its promise, which nobody holds, is rejected, and the
\* hash is not written
RedisFail ==
  /\ inflight # << >>
  /\ inflight' = Tail(inflight)
  /\ lost' = "failed"
  /\ UNCHANGED << pc, mem, pendingChanges, isUpdateScheduled, microtask,
                  updatePromises, expected, nmut, lastMut >>
  /\ UNCHANGED regVars
  /\ UNCHANGED inv

Mutate ==
  \/ \E path \in CtxPaths : \E value \in CtxValues : CtxSet(path, value)
  \/ \E path \in AssignPaths : \E value \in AssignValues : CtxAssign(path, value)
  \/ \E path \in CtxPaths \cup AssignPaths : CtxDelete(path)

NextCtx ==
  \/ Mutate
  \/ FlushChanges
  \/ FlushChangesDone
  \/ WaitAllSync
  \/ Return200
  \/ RedisApply
  \/ RedisFail

SpecCtx == InitCtx /\ [][NextCtx]_vars

\* C10: every context field written through the proxy is persisted in the
\* store when the invocation returns 200.
C10_PersistedBeforeReturn ==
  pc = "returned" => ctxStore[CtxConn] = expected

\* the two flags of the context are booleans
BooleanFlags ==
  \A f \in { FInit, FAck } : f \in DOMAIN mem /\ mem[f].t = "boolean"

\* C25: a context with boolean flags and boolean or string leaves under
\* connectionParams and extra is given back unchanged by
\* buildContext(compressContext(context)).
C25_CodecRoundTrip ==
  BooleanFlags => BuiltLeaves(compressContext(mem)) = mem

\* the changes the step queued
Queued == SubSeq(pendingChanges', Len(pendingChanges) + 1, Len(pendingChanges'))

\* a step in which an object or array was assigned through the proxy
Assigned == nmut' = nmut + 1 /\ lastMut'.mut = "set" /\ lastMut'.value.t = "object"

\* C26: assigning an object or array at path P queues exactly one set change
\* for each leaf of the assigned value, with a path under P.
C26_OneChangePerLeaf ==
  [][ Assigned =>
        LET leaves == LeafList(lastMut'.value, lastMut'.path) IN
        /\ Len(Queued) = Len(leaves)
        /\ \A i \in DOMAIN leaves :
             \E j \in DOMAIN Queued :
               Queued[j] = Change("set", leaves[i][1], serializeValue(leaves[i][2]))
        /\ \A j \in DOMAIN Queued : Under(Queued[j].path, lastMut'.path) ]_vars

\* a step in which a property was set or deleted through the proxy
Mutated == nmut' = nmut + 1

\* C27: on the proxy, setting a property to the value it has emits no
\* change, setting it to another value emits exactly one set change for the
\* path, and deleting a property emits exactly one del change.
C27_ProxyChanges ==
  [][ Mutated =>
        LET m == lastMut'
            same == m.path \in DOMAIN mem /\ mem[m.path] = m.value
        IN /\ (m.mut = "set" /\ same) => (m.emitted = 0 /\ Queued = << >>)
           /\ (m.mut = "set" /\ ~ same) => m.emitted = 1
           /\ (m.mut = "set" /\ ~ same /\ m.value.t # "object") =>
                Queued = << Change("set", m.path, serializeValue(m.value)) >>
           /\ m.mut = "del" =>
                /\ m.emitted = 1
                /\ Queued = << Change("del", m.path, serializeValue(JNull)) >> ]_vars

\* a property was set to the value it had
C27_Witness ==
  /\ lastMut.mut = "set"
  /\ lastMut.had
  /\ lastMut.emitted = 0
  /\ mem[lastMut.path] = lastMut.value

\* the invocation has returned and nothing of it is left to run: no microtask
\* is queued, no flush is in progress, the server has no command to apply
Ended == pc = "returned" /\ ~ microtask /\ updatePromises = 0 /\ inflight = << >>

\* C29: when no write fails, the store ends in the state obtained by
\* applying the set and delete mutations of the invocation one at a time in
\* the order they were made.
C29_MutationOrder ==
  (lost = "none" /\ Ended) => ctxStore[CtxConn] = expected

\* C30: after a batched write has failed and a later flush has run, with
\* every queued change flushed and every command of the client applied, no
\* change is lost: the store holds every mutation made.
C30_FailedBatchRetried ==
  (lost = "reflushed" /\ pendingChanges = << >> /\ inflight = << >>) =>
    ctxStore[CtxConn] = expected

\* every leaf of the in-memory context is a value the codec gives back
CodecSafe == \A f \in DOMAIN mem : deserializeValue(serializeValue(mem[f])) = mem[f]

\* C39: when an invocation has returned 200 with every write made, the
\* context rebuilt from the stored hash has the flags and the leaves of
\* connectionParams and extra of the in-memory context, also after a
\* container was replaced or deleted.
C39_RebuiltContext ==
  (lost = "none" /\ Ended /\ pendingChanges = << >> /\ BooleanFlags /\ CodecSafe) =>
    BuiltLeaves(ctxStore[CtxConn]) = mem

\* ------------------------------------------------------------------------
\* SpecRace: after some events handled one at a time, the client of a
\* connection sends Complete for one of its subscriptions and goes away.
\* The gateway hands the MESSAGE and the DISCONNECT event to two invocations
\* that run side by side; each script runs atomically in the server, every
\* await between two calls is a point where the other invocation may run.
\* ------------------------------------------------------------------------

\* the local state of the Complete invocation and of the DISCONNECT one
CompleteInvocation(c, id) ==
  [ pc |-> "unregister", conn |-> c, sid |-> id, rawPayload |-> None,
    status |-> None, hooks |-> << >> ]

DisconnectInvocation(c) ==
  [ pc |-> "snapshot", conn |-> c, subscriptions |-> << >>, acked |-> FALSE,
    status |-> None, hooks |-> << >> ]

\* an event of the setup, handled to its end
Setup ==
  /\ inv = NoInvocations
  /\ nev < MaxSetup
  /\ Next

\* the gateway delivers Complete(c, id) and DISCONNECT(c) at the same time
RaceStart(c, id) ==
  /\ inv = NoInvocations
  /\ gw[c] = "open"
  /\ \E t \in Topics : << c, id, t >> \in live
  /\ inv' = [ n \in { "K", "D" } |->
               IF n = "K" THEN CompleteInvocation(c, id) ELSE DisconnectInvocation(c) ]
  /\ gw' = [ gw EXCEPT ![c] = "closed" ]
  /\ UNCHANGED << sets, payloads, ctxStore, live, ev, nev >>
  /\ UNCHANGED idleVars

\* the invocation n is at step p
At(n, p) == n \in DOMAIN inv /\ inv[n].pc = p

\* what a step of an invocation leaves alone besides the registry
RaceFrame ==
  /\ UNCHANGED << payloads, ctxStore, gw, ev, nev >>
  /\ UNCHANGED idleVars

\* Complete: await pubsub.unregister(connectionId, subscriptionId)
CompleteUnregister ==
  /\ At("K", "unregister")
  /\ sets' = unregister(sets, inv["K"].conn, inv["K"].sid)
  /\ live' = { x \in live : ~ (x[1] = inv["K"].conn /\ x[2] = inv["K"].sid) }
  /\ inv' = [ inv EXCEPT !["K"].pc = "load" ]
  /\ RaceFrame

\* Complete: the payload record is read; a missing one is thrown
CompleteLoad ==
  /\ At("K", "load")
  /\ LET rawPayload == PayloadOf(payloads, inv["K"].sid) IN
     inv' = IF rawPayload = None
            THEN [ inv EXCEPT !["K"].pc = "done", !["K"].status = "threw" ]
            ELSE [ inv EXCEPT !["K"].pc = "onComplete", !["K"].rawPayload = rawPayload ]
  /\ UNCHANGED << sets, live >>
  /\ RaceFrame

\* Complete: await options.onComplete(ctx, subscriptionId, payload), then the
\* handler flushes and returns 200
CompleteOnComplete ==
  /\ At("K", "onComplete")
  /\ inv' = [ inv EXCEPT !["K"].pc = "done", !["K"].status = "200",
                         !["K"].hooks = << Hook("onComplete", inv["K"].sid,
                                                inv["K"].rawPayload) >> ]
  /\ UNCHANGED << sets, live >>
  /\ RaceFrame

\* DISCONNECT: await pubsub.getConnectionSubscriptions(connectionId)
DisconnectSnapshot ==
  /\ At("D", "snapshot")
  /\ inv' = [ inv EXCEPT !["D"].pc = "disconnect",
                         !["D"].subscriptions =
                            getConnectionSubscriptions(sets, inv["D"].conn) ]
  /\ UNCHANGED << sets, live >>
  /\ RaceFrame

\* DISCONNECT: await pubsub.disconnect(connectionId)
DisconnectCleanup ==
  /\ At("D", "disconnect")
  /\ sets' = disconnect(sets, inv["D"].conn)
  /\ live' = { x \in live : x[1] # inv["D"].conn }
  /\ inv' = [ inv EXCEPT !["D"].pc = "context" ]
  /\ RaceFrame

\* DISCONNECT: await socket.context()
DisconnectContext ==
  /\ At("D", "context")
  /\ inv' = [ inv EXCEPT !["D"].pc = "onComplete",
                         !["D"].acked =
                            Truthy(BuiltFlag(ctxStore[inv["D"].conn], FAck)) ]
  /\ UNCHANGED << sets, live >>
  /\ RaceFrame

\* DISCONNECT: the payload of every snapshot id is read and onComplete
\* called with it; a missing payload rejects Promise.all
DisconnectOnComplete ==
  /\ At("D", "onComplete")
  /\ LET subscriptions == inv["D"].subscriptions
         missing == \E i \in DOMAIN subscriptions :
                       PayloadOf(payloads, subscriptions[i]) = None
         completes == CompleteHooks(subscriptions, payloads)
     IN inv' = IF missing
               THEN [ inv EXCEPT !["D"].pc = "done", !["D"].status = "threw",
                                 !["D"].hooks = completes ]
               ELSE [ inv EXCEPT !["D"].pc = "hooks", !["D"].hooks = completes ]
  /\ UNCHANGED << sets, live >>
  /\ RaceFrame

\* DISCONNECT: onDisconnect when acknowledged, onClose, return 200
DisconnectHooks ==
  /\ At("D", "hooks")
  /\ inv' = [ inv EXCEPT !["D"].pc = "done", !["D"].status = "200",
                         !["D"].hooks =
                            @ \o (IF inv["D"].acked
                                  THEN << Hook("onDisconnect", << >>, None) >>
                                  ELSE << >>)
                              \o << Hook("onClose", << >>, None) >> ]
  /\ UNCHANGED << sets, live >>
  /\ RaceFrame

NextRace ==
  \/ Setup
  \/ \E c \in ConnIds : \E id \in SubIds : RaceStart(c, id)
  \/ CompleteUnregister
  \/ CompleteLoad
  \/ CompleteOnComplete
  \/ DisconnectSnapshot
  \/ DisconnectCleanup
  \/ DisconnectContext
  \/ DisconnectOnComplete
  \/ DisconnectHooks

SpecRace == Init /\ [][NextRace]_vars

\* the two invocations have finished
RaceOver == At("K", "done") /\ At("D", "done")

\* C20: for every interleaving of a Complete(c, s) invocation with the
\* DISCONNECT(c) invocation, both finish without error and the final
\* registry holds no reference to c or to s.
C20_CompleteDisconnectRace ==
  RaceOver =>
    /\ inv["K"].status = "200"
    /\ inv["D"].status = "200"
    /\ ~ EXISTS(sets, ConnKey(inv["K"].conn))
    /\ \A t \in Topics : \A m \in TopicMembers(t) :
         /\ Split(m, "#")[1] # ConnKey(inv["K"].conn)
         /\ m # Tuple(inv["K"].conn, inv["K"].sid)
    /\ ~ EXISTS(sets, SubKey(inv["K"].sid))

\* the number of onComplete calls among hooks for the subscription id
OnCompleteCalls(hooks, id) ==
  Cardinality({ i \in DOMAIN hooks : hooks[i].hook = "onComplete" /\ hooks[i].sid = id })

\* C38: for a subscription that was established once, onComplete is called
\* at most once by the Complete invocation for its id and the DISCONNECT
\* invocation of its connection together, however they interleave.
C38_OnCompleteAtMostOnce ==
  RaceOver =>
    OnCompleteCalls(inv["K"].hooks, inv["K"].sid)
      + OnCompleteCalls(inv["D"].hooks, inv["K"].sid) <= 1

\* ------------------------------------------------------------------------
\* SpecPub: after some events handled one at a time, publish(topic, payload)
\* is called (by a resolver in another invocation) and runs beside the
\* handling of further events.  publish reads the topic set once, makes its
\* sends, then cleans up after every 410; each script runs atomically in the
\* server, every await of publish is a point where an event may be handled.
\* ------------------------------------------------------------------------

\* the local state of a publish call.  before is the subscriber set of the
\* topic when the call started, handled counts the events handled since and
\* updates those that changed the registry, sentAfter is that count when the
\* sends were made and subscribers the subscriber set then
PublishInvocation(topic) ==
  [ pc |-> "getChannels", topic |-> topic, channels |-> << >>, results |-> << >>,
    i |-> 1, status |-> None, before |-> LivePairs(topic), updates |-> 0,
    sentAfter |-> 0, subscribers |-> {}, handled |-> 0 ]

\* an event of the connections' life is handled to its end before publish
\* is called
SetupPub ==
  /\ inv = NoInvocations
  /\ nev < MaxPubSetup
  /\ nev' = nev + 1
  /\ (Connect \/ ConnectionInit \/ Subscribe \/ Complete \/ Disconnect)
  /\ UNCHANGED inv

PublishStart(topic) ==
  /\ inv = NoInvocations
  /\ inv' = [ n \in { "P" } |-> PublishInvocation(topic) ]
  /\ UNCHANGED regVars
  /\ UNCHANGED idleVars

\* publish is between its start and its return
Publishing == "P" \in DOMAIN inv /\ inv["P"].pc # "done"

\* const channels = await this.getChannels(topic)
PublishGetChannels ==
  /\ At("P", "getChannels")
  /\ inv' = [ inv EXCEPT !["P"].pc = "send",
                         !["P"].channels = getChannels(sets, inv["P"].topic) ]
  /\ UNCHANGED regVars
  /\ UNCHANGED idleVars

\* await Promise.allSettled(channels.map(...)): one send per channel read
PublishSend ==
  /\ At("P", "send")
  /\ \E outs \in [ DOMAIN inv["P"].channels -> Outcomes ] :
       /\ \A i \in DOMAIN outs :
            PossibleOutcome(inv["P"].channels[i].connectionId, outs[i])
       /\ LET settled == SettleAll(inv["P"].channels, outs) IN
          inv' = [ inv EXCEPT !["P"].pc = IF settled.threw THEN "done" ELSE "gone",
                              !["P"].status = IF settled.threw THEN "threw" ELSE None,
                              !["P"].results = settled.results,
                              !["P"].sentAfter = inv["P"].updates,
                              !["P"].subscribers = LivePairs(inv["P"].topic) ]
  /\ UNCHANGED regVars
  /\ UNCHANGED idleVars

\* one turn of the loop over the results: await this.disconnect(connectionId)
\* for a 410, a warning for another failure; after the last one publish
\* returns
PublishGone ==
  /\ At("P", "gone")
  /\ LET i == inv["P"].i
         results == inv["P"].results
     IN IF i > Len(results)
        THEN /\ inv' = [ inv EXCEPT !["P"].pc = "done", !["P"].status = "200" ]
             /\ UNCHANGED << sets, live >>
        ELSE /\ inv' = [ inv EXCEPT !["P"].i = i + 1 ]
             /\ IF results[i].outcome = "gone"
                THEN /\ sets' = disconnect(sets, results[i].to)
                     /\ live' = { x \in live : x[1] # results[i].to }
                ELSE UNCHANGED << sets, live >>
  /\ UNCHANGED << payloads, ctxStore, gw, ev, nev >>
  /\ UNCHANGED idleVars

\* an event that reaches register, unregister or disconnect is handled while
\* publish runs
ConcurrentUpdate ==
  /\ Publishing
  /\ inv["P"].handled < MaxConcurrent
  /\ nev' = nev + 1
  /\ (Subscribe \/ Complete \/ Disconnect)
  /\ inv' = [ inv EXCEPT !["P"].handled = @ + 1,
                         !["P"].updates = IF sets' # sets THEN @ + 1 ELSE @ ]

NextPub ==
  \/ SetupPub
  \/ \E topic \in Topics : PublishStart(topic)
  \/ PublishGetChannels
  \/ PublishSend
  \/ PublishGone
  \/ ConcurrentUpdate

SpecPub == Init /\ [][NextPub]_vars

\* the (connection, subscription) pairs publish sent a frame to
Deliveries(results) == { << results[i].to, results[i].id >> : i \in DOMAIN results }

\* the number of pairs in one of the sets and not in the other
Differ(A, B) == Cardinality((A \ B) \cup (B \ A))

\* C21: a publish that runs beside register, unregister or disconnect does
\* not throw, and the pairs it sends to differ from the subscriber set of the
\* topic (when publish started, and when it sent) by at most one pair for
\* each update made in between.
C21_PublishUnderUpdates ==
  /\ At("P", "done") => inv["P"].status = "200"
  /\ ("P" \in DOMAIN inv /\ inv["P"].pc \in { "gone", "done" }) =>
       /\ Differ(Deliveries(inv["P"].results), inv["P"].before) <= inv["P"].sentAfter
       /\ Differ(Deliveries(inv["P"].results), inv["P"].subscribers) <= inv["P"].sentAfter

\* ------------------------------------------------------------------------
\* SpecSub: after some events handled one at a time, the client of a
\* connection sends Subscribe and goes away.  The gateway hands the MESSAGE
\* and the DISCONNECT event to two invocations that run side by side; the
\* Subscribe handler takes one step per call to Redis, the DISCONNECT
\* handler the steps it takes in SpecRace.
\* ------------------------------------------------------------------------

\* the local state of the Subscribe invocation
SubscribeInvocation(c, id, q) ==
  [ pc |-> "context", conn |-> c, sid |-> id, query |-> q, status |-> None,
    close |-> 0, sends |-> << >>, hooks |-> << >>, registered |-> FALSE ]

\* an event of the connections' life is handled to its end before two
\* invocations overlap
SetupSub ==
  /\ inv = NoInvocations
  /\ nev < MaxSubSetup
  /\ nev' = nev + 1
  /\ (Connect \/ ConnectionInit \/ Subscribe \/ Complete \/ Disconnect)
  /\ UNCHANGED inv

\* the gateway delivers Subscribe(c, id) and DISCONNECT(c) at the same time
SubRaceStart(c, id, q) ==
  /\ inv = NoInvocations
  /\ gw[c] = "open"
  /\ inv' = [ n \in { "S", "D" } |->
               IF n = "S" THEN SubscribeInvocation(c, id, q)
               ELSE DisconnectInvocation(c) ]
  /\ gw' = [ gw EXCEPT ![c] = "closed" ]
  /\ UNCHANGED << sets, payloads, ctxStore, live, ev, nev >>
  /\ UNCHANGED idleVars

\* Subscribe: const ctx = await socket.context(); an unacknowledged
\* connection is closed with 4401
SubscribeContext ==
  /\ At("S", "context")
  /\ inv' = IF Truthy(BuiltFlag(ctxStore[inv["S"].conn], FAck))
            THEN [ inv EXCEPT !["S"].pc = "isRegistered" ]
            ELSE [ inv EXCEPT !["S"].pc = "done", !["S"].status = "200",
                              !["S"].close = Unauthorized ]
  /\ UNCHANGED << sets, live >>
  /\ RaceFrame

\* Subscribe: await pubsub.isRegistered(id); a registered id is refused
\* with 4409
SubscribeIsRegistered ==
  /\ At("S", "isRegistered")
  /\ inv' = IF isRegistered(sets, inv["S"].sid)
            THEN [ inv EXCEPT !["S"].pc = "done", !["S"].status = "200",
                              !["S"].close = SubscriberAlreadyExists ]
            ELSE [ inv EXCEPT !["S"].pc = "set" ]
  /\ UNCHANGED << sets, live >>
  /\ RaceFrame

\* Subscribe: await redis.set(key.subPayload(id), JSON.stringify(payload))
SubscribeSetPayload ==
  /\ At("S", "set")
  /\ payloads' = [ payloads EXCEPT ![inv["S"].sid] = inv["S"].query ]
  /\ inv' = [ inv EXCEPT !["S"].pc = "execute" ]
  /\ UNCHANGED << sets, live, ctxStore, gw, ev, nev >>
  /\ UNCHANGED idleVars

\* Subscribe: the operation is executed; a channel is registered by the
\* script, a single result is sent and completed, anything else is thrown
\* and the socket closed with 4400.  Then the handler flushes and returns
SubscribeExecute ==
  /\ At("S", "execute")
  /\ LET c == inv["S"].conn
         id == inv["S"].sid
         q == inv["S"].query
     IN CASE q \in RegistrableQueries ->
               LET r == register(sets, TopicsOf(q), c, id) IN
               /\ sets' = r.sets
               /\ live' = IF r.ok THEN live \cup { << c, id, t >> : t \in TopicsOf(q) }
                          ELSE live
               /\ inv' = IF r.ok
                         THEN [ inv EXCEPT !["S"].pc = "done", !["S"].status = "200",
                                           !["S"].registered = TRUE ]
                         ELSE [ inv EXCEPT !["S"].pc = "done", !["S"].status = "threw",
                                           !["S"].close = BadRequest ]
          [] q = "query" ->
               /\ inv' = [ inv EXCEPT !["S"].pc = "done", !["S"].status = "200",
                                      !["S"].sends = << Frame(c, "next", id) >>,
                                      !["S"].hooks = << Hook("onComplete", id, q) >> ]
               /\ UNCHANGED << sets, live >>
          [] OTHER ->
               /\ inv' = [ inv EXCEPT !["S"].pc = "done", !["S"].status = "threw",
                                      !["S"].close = BadRequest ]
               /\ UNCHANGED << sets, live >>
  /\ RaceFrame

NextSub ==
  \/ SetupSub
  \/ \E c \in ConnIds : \E id \in SubIds : \E q \in Queries : SubRaceStart(c, id, q)
  \/ SubscribeContext
  \/ SubscribeIsRegistered
  \/ SubscribeSetPayload
  \/ SubscribeExecute
  \/ DisconnectSnapshot
  \/ DisconnectCleanup
  \/ DisconnectContext
  \/ DisconnectOnComplete
  \/ DisconnectHooks

SpecSub == Init /\ [][NextSub]_vars

\* the Subscribe and the DISCONNECT invocation have finished
SubRaceOver == At("S", "done") /\ At("D", "done")

\* C36: for every interleaving of a Subscribe(c, s) invocation with the
\* DISCONNECT(c) invocation, once both have finished no topic holds a tuple
\* of c, c has no owned set, and the record of s is gone when the Subscribe
\* registered it.
C36_SubscribeDisconnectRace ==
  SubRaceOver =>
    LET c == inv["S"].conn IN
    /\ ~ EXISTS(sets, ConnKey(c))
    /\ \A t \in Topics : \A m \in TopicMembers(t) : Split(m, "#")[1] # ConnKey(c)
    /\ inv["S"].registered => ~ EXISTS(sets, SubKey(inv["S"].sid))

\* ------------------------------------------------------------------------
\* SpecInit: after some events handled one at a time, the client of a
\* connection sends ConnectionInit twice and the gateway hands the two
\* messages to two invocations that run side by side.  Each invocation
\* builds its own context from the hash it reads, and its writes reach the
\* hash when the server applies the HSET its flush issued.
\* ------------------------------------------------------------------------

\* the local state of a ConnectionInit invocation; raw is the hash it read
InitInvocation(c, payload) ==
  [ pc |-> "context", conn |-> c, payload |-> payload, raw |-> EmptyHash,
    status |-> None, close |-> 0, sends |-> << >>, hooks |-> << >> ]

\* the names of the two invocations
InitNames == { "I", "J" }

\* the gateway delivers two ConnectionInit messages of c at the same time
InitRaceStart(c, payloadI, payloadJ) ==
  /\ inv = NoInvocations
  /\ gw[c] = "open"
  /\ inv' = [ n \in InitNames |->
               InitInvocation(c, IF n = "I" THEN payloadI ELSE payloadJ) ]
  /\ UNCHANGED regVars
  /\ UNCHANGED idleVars

\* ConnectionInit: const ctx = await socket.context(), built from the hash
\* as it is now; a context that has connectionInitReceived is closed with
\* 4429
InitContext(n) ==
  /\ At(n, "context")
  /\ LET raw == ctxStore[inv[n].conn] IN
     inv' = IF Truthy(BuiltFlag(raw, FInit))
            THEN [ inv EXCEPT ![n].pc = "done", ![n].status = "200",
                              ![n].close = TooManyInitialisationRequests ]
            ELSE [ inv EXCEPT ![n].pc = "onConnect", ![n].raw = raw ]
  /\ UNCHANGED regVars
  /\ UNCHANGED idleVars

\* ConnectionInit: await options.onConnect(ctx); false closes with 4403.
\* Else the flags and connectionParams are written to the proxy and the ack
\* is sent: await socket.send(...)
InitOnConnect(n, permitted) ==
  /\ At(n, "onConnect")
  /\ inv' = IF Forbids(permitted)
            THEN [ inv EXCEPT ![n].pc = "done", ![n].status = "200",
                              ![n].close = Forbidden,
                              ![n].hooks = << Hook("onConnect", << >>, None) >> ]
            ELSE [ inv EXCEPT ![n].pc = "flush",
                              ![n].hooks = << Hook("onConnect", << >>, None) >>,
                              ![n].sends = << AckFrame(inv[n].conn, permitted) >> ]
  /\ UNCHANGED regVars
  /\ UNCHANGED idleVars

\* the server applies the HSET of the invocation's batch; the handler has
\* returned 200 by then or returns now
InitFlush(n) ==
  /\ At(n, "flush")
  /\ ctxStore' = [ ctxStore EXCEPT ![inv[n].conn] =
                     HSET(@, InitWrites(inv[n].raw, inv[n].payload)) ]
  /\ inv' = [ inv EXCEPT ![n].pc = "done", ![n].status = "200" ]
  /\ UNCHANGED << sets, payloads, gw, live, ev, nev >>
  /\ UNCHANGED idleVars

NextInit ==
  \/ SetupSub
  \/ \E c \in ConnIds : \E payloadI, payloadJ \in InitPayloads :
       InitRaceStart(c, payloadI, payloadJ)
  \/ \E n \in InitNames : InitContext(n)
  \/ \E n \in InitNames : \E permitted \in { "undefined", "false", "object" } :
       InitOnConnect(n, permitted)
  \/ \E n \in InitNames : InitFlush(n)

SpecInit == Init /\ [][NextInit]_vars

\* the connection_ack frames among the frames sent
Acks(sends) == { i \in DOMAIN sends : sends[i].type = "connection_ack" }

\* C37: for every interleaving of two ConnectionInit invocations on one
\* connection at most one of them is accepted: at most one connection_ack is
\* sent for the connection.
C37_OneAckPerConnection ==
  (\A n \in InitNames : n \in DOMAIN inv) =>
    Cardinality(Acks(inv["I"].sends)) + Cardinality(Acks(inv["J"].sends)) <= 1

\* ------------------------------------------------------------------------
\* SpecSock: the socket and the emitter of one invocation.  Tasks of the
\* invocation (the handler, hooks, emitter calls) call socket.context() or
\* emitter.complete(notifyClient, message), one after another or while
\* others wait for the reply of Redis; every await is a step.
\* ------------------------------------------------------------------------

\* the tasks of the invocation
Tasks == 1..MaxCalls

\* what a task calls: socket.context(), emitter.complete(true, message) or
\* emitter.complete(false, message)
Calls == { "context", "completeNotify", "completeSilent" }

\* the state of createSocket: contextManager and contextPromise are None
\* until set, a context object is named by its number; reads counts the
\* HGETALL commands sent
Socket(c) ==
  [ conn |-> c, contextManager |-> 0, contextPromise |-> "unset", settled |-> 0,
    reads |-> 0, objects |-> 0 ]

\* a task: the call it makes, where it stands, the context object it got and
\* whether it got it from the promise or from the manager, and what it did
Task ==
  [ call |-> None, pc |-> "idle", ctx |-> 0, via |-> None, log |-> << >> ]

\* the stored hash of CtxConn after CONNECT, and an invocation of either
\* connection about to start
InitSock ==
  /\ InitCtxStore
  /\ \E c \in ConnIds :
       inv = [ n \in { "socket", "tasks" } |->
                 IF n = "socket" THEN Socket(c) ELSE [ i \in Tasks |-> Task ] ]
  /\ pc = "idle"
  /\ mem = EmptyHash
  /\ pendingChanges = << >>
  /\ isUpdateScheduled = FALSE
  /\ microtask = FALSE
  /\ updatePromises = 0
  /\ inflight = << >>
  /\ expected = EmptyHash
  /\ nmut = 0
  /\ lastMut = NoMutation
  /\ lost = "none"

\* the steps of SpecSock change the socket and the tasks only
SockFrame ==
  /\ UNCHANGED regVars
  /\ UNCHANGED idleVars

\* if (!contextPromise), with the check left out
NeedsReadAlways(socket) == TRUE

\* if (!contextPromise): no read has been started
NeedsRead(socket) == socket.contextPromise = "unset"

\* socket.context() up to its return: with a context manager its context is
\* returned; without one the promise of retrieveAndBuildContext is, and
\* HGETALL is sent when there is no promise yet
ContextCall(socket) ==
  IF socket.contextManager # 0 THEN socket
  ELSE IF NeedsRead(socket)
  THEN [ socket EXCEPT !.contextPromise = "pending", !.reads = @ + 1 ]
  ELSE socket

\* a task calls socket.context(), on its own or as the first line of
\* emitter.complete
TaskCall(i, call) ==
  /\ inv["tasks"][i].pc = "idle"
  /\ LET socket == inv["socket"]
         after == ContextCall(socket)
     IN inv' = [ inv EXCEPT
                   !["socket"] = after,
                   !["tasks"][i] =
                      IF socket.contextManager # 0
                      THEN [ @ EXCEPT !.call = call, !.pc = "got", !.via = "manager",
                                      !.ctx = socket.contextManager ]
                      ELSE [ @ EXCEPT !.call = call, !.pc = "awaiting",
                                      !.via = "promise" ] ]
  /\ SockFrame

\* the reply of HGETALL arrives: retrieveAndBuildContext builds the context
\* and creates the context manager, or returns a default context when the
\* client gave no hash; the promise is fulfilled with the new object
ReadReply(absent) ==
  /\ inv["socket"].contextPromise = "pending"
  /\ absent => ctxStore[inv["socket"].conn] = EmptyHash
  /\ LET object == inv["socket"].objects + 1 IN
     inv' = [ inv EXCEPT !["socket"].objects = object,
                         !["socket"].contextPromise = "fulfilled",
                         !["socket"].settled = object,
                         !["socket"].contextManager = IF absent THEN @ ELSE object ]
  /\ SockFrame

\* a task that awaits the promise of the context resumes with its value
TaskResume(i) ==
  /\ inv["tasks"][i].pc = "awaiting"
  /\ inv["socket"].contextPromise = "fulfilled"
  /\ inv' = [ inv EXCEPT !["tasks"][i].pc = "got",
                         !["tasks"][i].ctx = inv["socket"].settled ]
  /\ SockFrame

\* if (notifyClient), with the check left out
SendsCompleteAlways(notifyClient) == TRUE

\* if (notifyClient)
SendsComplete(notifyClient) == notifyClient

\* the task has its context: a context() call is over, emitter.complete
\* calls options.onComplete(ctx, id, payload)
TaskGot(i) ==
  /\ inv["tasks"][i].pc = "got"
  /\ inv' = IF inv["tasks"][i].call = "context"
            THEN [ inv EXCEPT !["tasks"][i].pc = "done" ]
            ELSE [ inv EXCEPT !["tasks"][i].pc = "onComplete",
                              !["tasks"][i].log = Append(@, "onComplete called") ]
  /\ SockFrame

\* the promise of onComplete settles and emitter.complete goes on: it sends
\* the complete frame when notifyClient is true
TaskHookDone(i) ==
  /\ inv["tasks"][i].pc = "onComplete"
  /\ inv' = [ inv EXCEPT
                !["tasks"][i].pc =
                   IF SendsComplete(inv["tasks"][i].call = "completeNotify")
                   THEN "send" ELSE "done",
                !["tasks"][i].log = Append(@, "onComplete finished") ]
  /\ SockFrame

\* await socket.send(complete frame)
TaskSend(i) ==
  /\ inv["tasks"][i].pc = "send"
  /\ inv' = [ inv EXCEPT !["tasks"][i].pc = "done",
                         !["tasks"][i].log = Append(@, "complete sent") ]
  /\ SockFrame

NextSock ==
  \/ \E i \in Tasks : \E call \in Calls : TaskCall(i, call)
  \/ \E absent \in BOOLEAN : ReadReply(absent)
  \/ \E i \in Tasks : TaskResume(i)
  \/ \E i \in Tasks : TaskGot(i)
  \/ \E i \in Tasks : TaskHookDone(i)
  \/ \E i \in Tasks : TaskSend(i)

SpecSock == InitSock /\ [][NextSock]_vars

\* the tasks that have their context
HaveContext == { i \in Tasks : inv["tasks"][i].pc \in { "got", "onComplete", "send", "done" } }

\* C31: within one invocation the context() calls, one after another or
\* overlapping, cause at most one read of the stored record and all return
\* the same context object.
C31_ContextMemoized ==
  /\ inv["socket"].reads <= 1
  /\ \A i, j \in HaveContext : inv["tasks"][i].ctx = inv["tasks"][j].ctx

\* two calls waited for the same read, and a later call was answered by the
\* context manager
C31_Witness ==
  /\ HaveContext = Tasks
  /\ inv["socket"].reads = 1
  /\ \E i, j \in Tasks :
       /\ i # j
       /\ inv["tasks"][i].via = "promise"
       /\ inv["tasks"][j].via = "promise"
  /\ \E k \in Tasks : inv["tasks"][k].via = "manager"

\* the place of an entry in the log of a task, 0 when it is not there
Place(log, what) ==
  IF \E k \in DOMAIN log : log[k] = what
  THEN CHOOSE k \in DOMAIN log : log[k] = what
  ELSE 0

\* C34: emitter.complete(notifyClient, message) sends the complete frame
\* only after onComplete has finished, and sends none when notifyClient is
\* false.
C34_CompleteAfterHook ==
  \A i \in Tasks :
    LET task == inv["tasks"][i]
        sent == Place(task.log, "complete sent")
        finished == Place(task.log, "onComplete finished")
    IN /\ sent # 0 => (finished # 0 /\ finished < sent)
       /\ task.call = "completeSilent" => sent = 0
       /\ (task.call = "completeNotify" /\ task.pc = "done") => sent # 0

\* one emitter.complete notified the client and another one did not
C34_Witness ==
  \E i, j \in Tasks :
    /\ inv["tasks"][i].call = "completeNotify"
    /\ inv["tasks"][i].log = << "onComplete called", "onComplete finished", "complete sent" >>
    /\ inv["tasks"][j].call = "completeSilent"
    /\ inv["tasks"][j].pc = "done"

\* ------------------------------------------------------------------------
\* SpecShape: one GraphQLLambdaPubsub instance lives in a warm container and
\* serves publish calls of many invocations, while the events of the
\* connections are handled one at a time in between.  The instance keeps
\* subscribePayloadMap, the subscribe payloads it has read, by subscription
\* id.
\* ------------------------------------------------------------------------

\* the instance after its construction: schema tells whether
\* setGraphQLSchema was called, shaped what executePayload used for each
\* send of the last publish, published the number of publish calls made
Pubsub(schema) ==
  [ schema |-> schema, subscribePayloadMap |-> [ s \in SubIds |-> None ],
    shaped |-> << >>, published |-> 0 ]

InitShape ==
  /\ InitReg
  /\ \E schema \in BOOLEAN : inv = [ n \in { "pubsub" } |-> Pubsub(schema) ]
  /\ pc = "idle"
  /\ mem = EmptyHash
  /\ pendingChanges = << >>
  /\ isUpdateScheduled = FALSE
  /\ microtask = FALSE
  /\ updatePromises = 0
  /\ inflight = << >>
  /\ expected = EmptyHash
  /\ nmut = 0
  /\ lastMut = NoMutation
  /\ lost = "none"

\* a truthy entry of the map is returned as it is, otherwise the payload is
\* read from Redis (null when there is none)
getSubscribePayload(map, P, id) ==
  IF PayloadOf(map, id) # None THEN map[id] ELSE PayloadOf(P, id)

\* what executePayload executes the published payload with: the query of
\* the subscribe payload, or nothing ("raw", { data: payload }) when no
\* schema is set or no subscribe payload is found
executePayload(pubsub, P, id) ==
  IF ~ pubsub.schema THEN "raw"
  ELSE LET subscribePayload == getSubscribePayload(pubsub.subscribePayloadMap, P, id)
       IN IF subscribePayload = None THEN "raw" ELSE subscribePayload

\* the map after the executePayload calls of one publish: every id looked
\* up has the entry getSubscribePayload returned for it
Remember(pubsub, P, channels) ==
  IF ~ pubsub.schema THEN pubsub.subscribePayloadMap
  ELSE [ s \in SubIds |->
           IF \E i \in DOMAIN channels : channels[i].subscriptionId = s
           THEN getSubscribePayload(pubsub.subscribePayloadMap, P, s)
           ELSE pubsub.subscribePayloadMap[s] ]

\* publish(topic, payload) on the instance: executePayload and one send for
\* each channel, then the cleanup of the connections that are gone
PublishShaped ==
  /\ inv["pubsub"].published < MaxPublishes
  /\ nev' = nev
  /\ \E topic \in Topics :
       LET channels == getChannels(sets, topic) IN
       /\ \E outs \in [ DOMAIN channels -> Outcomes ] : publish(topic, outs)
       /\ inv' = [ inv EXCEPT
            !["pubsub"].published = @ + 1,
            !["pubsub"].subscribePayloadMap = Remember(inv["pubsub"], payloads, channels),
            !["pubsub"].shaped =
               [ i \in DOMAIN channels |->
                   [ to |-> channels[i].connectionId,
                     id |-> channels[i].subscriptionId,
                     with |-> executePayload(inv["pubsub"], payloads,
                                             channels[i].subscriptionId) ] ] ]

\* an event of the connections' life is handled to its end
ShapeEvent ==
  /\ nev < MaxShapeEvents
  /\ nev' = nev + 1
  /\ (Connect \/ ConnectionInit \/ Subscribe \/ Complete \/ Disconnect)
  /\ UNCHANGED inv

NextShape ==
  \/ ShapeEvent
  \/ PublishShaped

SpecShape == InitShape /\ [][NextShape]_vars

\* the subscribe payload stored for an id, as executePayload would use it
StoredShape(id) == IF PayloadOf(payloads, id) = None THEN "raw" ELSE PayloadOf(payloads, id)

\* C40: in schema-aware mode every delivery of a publish is shaped with the
\* subscribe payload stored for its subscription id when publish runs, also
\* after the id was completed and subscribed again with another query.
C40_ShapedWithStoredPayload ==
  (ev.type = "publish" /\ inv["pubsub"].schema) =>
    \A i \in DOMAIN inv["pubsub"].shaped :
      inv["pubsub"].shaped[i].with = StoredShape(inv["pubsub"].shaped[i].id)

====
